---- MODULE Spec2Model ----
(***************************************************************************)
(* Booking synchronisation of the room calendar: the browser-side smart    *)
(* sync service over its IndexedDB booking database, and the Node backend  *)
(* sync over its SQLite database.                                          *)
(*                                                                         *)
(* Instants are counted in ticks (TicksPerHour ticks to the hour) of UTC;  *)
(* a month bucket "YYYY-MM" is the integer number of the month, and every  *)
(* month has MonthLen ticks.  tz is the offset of local time from UTC in   *)
(* ticks.                                                                  *)
(***************************************************************************)
EXTENDS Integers, Sequences, FiniteSets, Bags, TLC

VARIABLES
    now,          \* wall clock (Date.now()), UTC ticks
    tz,           \* offset of the local zone from UTC, ticks
    remote,       \* how the remote booking API answers
    idb,          \* IndexedDB 'BookingDatabase': [bookings, meta]
    txn,          \* the readwrite transaction in progress on idb, if any
    reader,       \* a readonly transaction waiting behind txn
    lastRead,     \* what the last completed read returned
    isSyncing,    \* BookingSmartSyncService.isSyncing
    syncPromise,  \* BookingSmartSyncService.syncPromise (the pass it resolves with)
    call,         \* the callers of the service and what they got back
    pass,         \* the running bucket loops (syncOperation / forceFullSync bodies)
    progress,     \* per caller, the bag of onProgress arguments received
    sqlite,       \* backend bookings.db: [bookings, meta]
    bsync,        \* backend: the running syncAllBookings invocations
    posted,       \* backend: what the last POST handler answered
    viewMonth,    \* the month the calendar view shows
    today,        \* the local calendar date of 'new Date()': [y, m, d]
    listed,       \* what the last listing of the month window produced
    recon,        \* the reconciliation of calendar events with bookings: input and output
    paging,       \* a getBookingAppointments call: the pages of the remote and its outcome
    hook          \* useCalendarEvents: its state and its fetchEvents invocations

feVars == <<idb, txn, reader, lastRead, isSyncing, syncPromise, call, pass, progress>>
beVars == <<sqlite, bsync, posted>>
uiVars == <<today, listed, recon, paging, hook>>
vars == <<now, tz, remote, viewMonth, feVars, beVars, uiVars>>

---------------------------------------------------------------------------
(* Bounds of the model *)

MaxCallers == 2      \* concurrent callers of the browser sync service
MaxElapsed == 50     \* ticks the clock may advance
TicksPerHour == 2    \* clock resolution
TicksPerMinute == 2  \* resolution of the event and booking times

(* Program constants *)

monthsAhead == 12
monthsBehind == 6
MaxAgeCurrent == 1
MaxAgeFuture == 6
MaxAgePast == 24

MonthLen == 30 * 24 * TicksPerHour
StartInstant == 20 * MonthLen + 2 * TicksPerHour   \* 02:00 UTC on the 1st of month 20
StartMonth == StartInstant \div MonthLen
TzOffsets == {-5 * TicksPerHour, 0, 2 * TicksPerHour}
LocalTz == 2 * TicksPerHour

Callers == 1..MaxCallers
PassIds == Callers \X {1, 2}
NoPass == <<0, 0>>
DirectWriter == <<0, 1>>

---------------------------------------------------------------------------
(* Dates *)

\* format(date, 'yyyy-MM') of a local date: the month of the local wall time
getMonthKey(t, z) == (t + z) \div MonthLen

\* new Date(monthKey + '-01'): a date-only string is midnight UTC
targetMonth(monthKey) == monthKey * MonthLen

\* differenceInHours(later, earlier): full hours, truncated toward zero
differenceInHours(later, earlier) ==
    IF later >= earlier THEN (later - earlier) \div TicksPerHour
    ELSE 0 - ((earlier - later) \div TicksPerHour)

\* startOfMonth / endOfMonth of new Date(monthKey + '-01') in local time, as UTC instants
getMonthDateRange(monthKey, z) ==
    LET m == getMonthKey(targetMonth(monthKey), z)
    IN  [start |-> m * MonthLen - z, end |-> (m + 1) * MonthLen - z - 1]

\* the month keys of addMonths(now, i), i = -monthsBehind .. monthsAhead
MonthsToCheck(t, z) ==
    [k \in 1..(monthsBehind + monthsAhead + 1) |-> getMonthKey(t, z) - monthsBehind + (k - 1)]

\* the calendar: a local date is [y, m, d], and format(date, 'yyyy-MM') of it is
\* the number of its month
ListYears == {3, 4}
IsLeap(y) == y % 4 = 0
DaysInMonth(y, m) ==
    IF m = 2 THEN (IF IsLeap(y) THEN 29 ELSE 28)
    ELSE IF m \in {4, 6, 9, 11} THEN 30 ELSE 31
Dates == {dt \in [y : ListYears, m : 1..12, d : 1..31] : dt.d <= DaysInMonth(dt.y, dt.m)}
dateMonthKey(dt) == dt.y * 12 + (dt.m - 1)
YearOf(monthKey) == monthKey \div 12
MonthOf(monthKey) == (monthKey % 12) + 1

\* Date.prototype.setMonth / new Date(y, m, d) with a day past the end of the
\* month: the date runs over into the month after
nativeAddMonths(dt, amount) ==
    LET k == dateMonthKey(dt) + amount
    IN  IF dt.d <= DaysInMonth(YearOf(k), MonthOf(k))
        THEN [y |-> YearOf(k), m |-> MonthOf(k), d |-> dt.d]
        ELSE [y |-> YearOf(k + 1), m |-> MonthOf(k + 1), d |-> dt.d - DaysInMonth(YearOf(k), MonthOf(k))]

\* addMonths done with setMonth alone: a day past the end of the target month
\* runs over into the month after
addMonthsOverflow(dt, amount) == nativeAddMonths(dt, amount)

\* date-fns addMonths: the same day of the target month, or its last day when the
\* month is shorter
addMonths(dt, amount) ==
    LET k == dateMonthKey(dt) + amount
        daysInMonth == DaysInMonth(YearOf(k), MonthOf(k))
    IN  [y |-> YearOf(k), m |-> MonthOf(k), d |-> IF dt.d >= daysInMonth THEN daysInMonth ELSE dt.d]

\* 'for (let i = -monthsBehind; i <= monthsAhead; i++) monthsToCheck.push(getMonthKey(addMonths(now, i)))'
monthsToCheck(dt) ==
    [k \in 1..(monthsBehind + monthsAhead + 1) |-> dateMonthKey(addMonths(dt, k - 1 - monthsBehind))]

\* backend: 'new Date(now.getFullYear(), now.getMonth() + i, 1)', i = -6 .. 12
monthsToSync(dt) ==
    [k \in 1..19 |-> dateMonthKey(nativeAddMonths([dt EXCEPT !.d = 1], k - 1 - 6))]

\* the tick clock at noon of a calendar date (the tick clock has 30-day months)
InstantOf(dt) ==
    dateMonthKey(dt) * MonthLen + ((IF dt.d > 30 THEN 30 ELSE dt.d) - 1) * 24 * TicksPerHour
        + 12 * TicksPerHour

---------------------------------------------------------------------------
(* The remote booking API *)

RemoteModes == {"up", "noSources", "down"}

\* the appointments the remote businesses hold (dateTime is UTC wall time)
RemoteAppointments ==
    << [id |-> 1, biz |-> 1, start |-> StartMonth * MonthLen + 20 * TicksPerHour,
        end |-> StartMonth * MonthLen + 21 * TicksPerHour],
       [id |-> 2, biz |-> 1, start |-> (StartMonth + 1) * MonthLen - TicksPerHour,
        end |-> (StartMonth + 1) * MonthLen],
       [id |-> 3, biz |-> 2, start |-> (StartMonth + 1) * MonthLen + 20 * TicksPerHour,
        end |-> (StartMonth + 1) * MonthLen + 21 * TicksPerHour] >>

\* partial outages: the businesses request throws while FaultMonth is synced; the
\* calendarView requests made for FaultMonth fail; the calendarView requests of
\* business 1 fail
FaultModes == {"monthDown", "apptDown", "biz1Down"}
FaultMonth == StartMonth

\* GET solutions/bookingBusinesses: the business ids, none when the answer is not ok
getBookingBusinesses(mode) == IF mode \in {"up"} \cup FaultModes THEN <<1, 2>> ELSE <<>>

\* GET calendarView?start&end of one business: what overlaps the range
getBookingAppointments(biz, start, end) ==
    SelectSeq(RemoteAppointments,
              LAMBDA a : a.biz = biz /\ a.start <= end /\ a.end >= start)

\* the calendarView request of this business for this month throws or is not ok:
\* either way the caller goes on with no appointments from it
SourceFails(mode, biz, monthKey) ==
    \/ mode = "apptDown" /\ monthKey = FaultMonth
    \/ mode = "biz1Down" /\ biz = 1

\* format(new Date(booking.startDateTime.dateTime), 'yyyy-MM'): the string carries
\* no zone, so it is read as local wall time and formatted as local wall time
BookingMonth(a) == a.start \div MonthLen

RECURSIVE FetchAll(_, _, _, _)
FetchAll(mode, monthKey, businesses, range) ==
    IF businesses = <<>> THEN <<>>
    ELSE (IF SourceFails(mode, Head(businesses), monthKey) THEN <<>>
          ELSE getBookingAppointments(Head(businesses), range.start, range.end))
            \o FetchAll(mode, monthKey, Tail(businesses), range)

\* the fetch half of syncMonth: threw, or returned early, or the filtered bookings
SyncMonthFetch(mode, monthKey, z) ==
    IF mode = "down" \/ (mode = "monthDown" /\ monthKey = FaultMonth)
    THEN [threw |-> TRUE, store |-> FALSE, bookings |-> <<>>]
    ELSE LET businesses == getBookingBusinesses(mode)
             allBookings == FetchAll(mode, monthKey, businesses, getMonthDateRange(monthKey, z))
         IN  IF Len(businesses) = 0
             THEN [threw |-> FALSE, store |-> FALSE, bookings |-> <<>>]
             ELSE [threw |-> FALSE, store |-> TRUE,
                   bookings |-> SelectSeq(allBookings, LAMBDA a : BookingMonth(a) = monthKey)]

---------------------------------------------------------------------------
(* The IndexedDB booking database *)

EmptyDb == [bookings |-> {}, meta |-> {}]

StoredBooking(a, monthKey, t) ==
    [dbKey |-> a.id, monthKey |-> monthKey, storedAt |-> t, start |-> a.start, end |-> a.end]

MonthSyncMetadata(monthKey, t, n) == [monthKey |-> monthKey, lastSync |-> t, bookingCount |-> n]

\* objectStore.put: keyPath dbKey, an equal key is overwritten
Put(store, r) == {x \in store : x.dbKey # r.dbKey} \cup {r}

\* metaStore.put: keyPath monthKey
PutMeta(store, m) == {x \in store : x.monthKey # m.monthKey} \cup {m}

RECURSIVE PutAll(_, _, _, _)
PutAll(store, bookings, monthKey, t) ==
    IF bookings = <<>> THEN store
    ELSE PutAll(Put(store, StoredBooking(Head(bookings), monthKey, t)), Tail(bookings), monthKey, t)

\* index('monthKey').getAll(IDBKeyRange.only(monthKey))
getBookingsForMonth(db, monthKey) == {r \in db.bookings : r.monthKey = monthKey}

MetaOf(db, monthKey) == {m \in db.meta : m.monthKey = monthKey}

SetMin(S) == CHOOSE x \in S : \A y \in S : x <= y

\* The requests of the transaction run in the order they were placed: openCursor,
\* every put, the metadata put, and only then the delete / continue requests that
\* the cursor's onsuccess handler places.  The cursor opened on the first record of
\* the month as it was; it then walks the index as it is after the puts.
CursorDelete(before, afterPuts, monthKey) ==
    LET old == {r.dbKey : r \in {x \in before : x.monthKey = monthKey}}
    IN  IF old = {} THEN afterPuts
        ELSE {r \in afterPuts : ~(r.monthKey = monthKey /\ r.dbKey >= SetMin(old))}

storeBookingsForMonth(db, monthKey, bookings, t) ==
    [bookings |-> CursorDelete(db.bookings, PutAll(db.bookings, bookings, monthKey, t), monthKey),
     meta |-> PutMeta(db.meta, MonthSyncMetadata(monthKey, t, Len(bookings)))]

clearAll(db) == EmptyDb

monthNeedsSync(db, monthKey, t, z) ==
    IF MetaOf(db, monthKey) = {} THEN TRUE
    ELSE LET meta == CHOOSE m \in MetaOf(db, monthKey) : TRUE
             hoursSinceSync == differenceInHours(t, meta.lastSync)
             maxAge == IF monthKey = getMonthKey(t, z) THEN MaxAgeCurrent
                       ELSE IF targetMonth(monthKey) > t THEN MaxAgeFuture
                       ELSE MaxAgePast
         IN  hoursSinceSync > maxAge

getMonthsNeedingSync(db, t, z) ==
    SelectSeq(MonthsToCheck(t, z), LAMBDA m : monthNeedsSync(db, m, t, z))

---------------------------------------------------------------------------
(* BookingSmartSyncService *)

NoResult == [success |-> FALSE, totalCount |-> 0, monthsSynced |-> 0]
IdleCall == [op |-> "none", status |-> "idle", awaiting |-> NoPass, result |-> NoResult]
IdlePass == [kind |-> "none", phase |-> "idle", months |-> <<>>, i |-> 0,
             totalCount |-> 0, monthsSynced |-> 0, fetched |-> <<>>]

BucketView(db, monthKey) ==
    [bookings |-> getBookingsForMonth(db, monthKey), meta |-> MetaOf(db, monthKey)]

NoTxn == [active |-> FALSE, owner |-> NoPass, monthKey |-> 0, work |-> EmptyDb,
          old |-> BucketView(EmptyDb, 0), intended |-> BucketView(EmptyDb, 0)]
NoReader == [pending |-> FALSE, monthKey |-> 0, during |-> FALSE,
             old |-> BucketView(EmptyDb, 0), intended |-> BucketView(EmptyDb, 0)]
NoRead == [valid |-> FALSE, monthKey |-> 0, during |-> FALSE, result |-> BucketView(EmptyDb, 0),
           old |-> BucketView(EmptyDb, 0), intended |-> BucketView(EmptyDb, 0)]

\* what the caller of storeBookingsForMonth hands over, as a bucket
NewBucket(monthKey, bookings, t) ==
    [bookings |-> {StoredBooking(bookings[k], monthKey, t) : k \in 1..Len(bookings)},
     meta |-> {MonthSyncMetadata(monthKey, t, Len(bookings))}]

\* db.transaction([BOOKINGS_STORE, SYNC_META_STORE], 'readwrite') of storeBookingsForMonth
BeginStore(owner, monthKey, bookings) ==
    [active |-> TRUE, owner |-> owner, monthKey |-> monthKey,
     work |-> storeBookingsForMonth(idb, monthKey, bookings, now),
     old |-> BucketView(idb, monthKey), intended |-> NewBucket(monthKey, bookings, now)]

\* the value a finished call returns
ResultOf(rec) ==
    [success |-> IF rec.kind = "month" THEN rec.monthsSynced = 1 ELSE TRUE,
     totalCount |-> rec.totalCount, monthsSynced |-> rec.monthsSynced]

\* the loop body after 'const result = await this.syncMonth(...)'
AfterSyncMonth(rec, success, count) ==
    LET r == [rec EXCEPT !.totalCount = @ + (IF success THEN count ELSE 0),
                         !.monthsSynced = @ + (IF success THEN 1 ELSE 0),
                         !.fetched = <<>>]
    IN  IF rec.i < Len(rec.months) THEN [r EXCEPT !.i = @ + 1, !.phase = "fetch"]
        ELSE [r EXCEPT !.phase = "done"]

\* pass p continues as rec; when rec is finished its caller resumes: the first
\* syncOperation() only resolves syncPromise, the awaited one returns through
\* 'finally', the other operations return their result
Settle(p, rec) ==
    /\ pass' = [pass EXCEPT ![p] = rec]
    /\ IF rec.phase = "done" /\ ~(rec.kind = "syncAll" /\ p[2] = 1)
       THEN /\ call' = [call EXCEPT ![p[1]] = [@ EXCEPT !.status = "done", !.result = ResultOf(rec)]]
            /\ IF rec.kind = "syncAll"
               THEN isSyncing' = FALSE /\ syncPromise' = NoPass
               ELSE UNCHANGED <<isSyncing, syncPromise>>
       ELSE UNCHANGED <<call, isSyncing, syncPromise>>

syncAllNeededMonths(c) ==
    /\ call[c].status = "idle"
    /\ IF isSyncing
       THEN /\ call' = [call EXCEPT ![c] =
                  IF syncPromise # NoPass
                  THEN [op |-> "syncAll", status |-> "waiting", awaiting |-> syncPromise,
                        result |-> NoResult]
                  ELSE [op |-> "syncAll", status |-> "done", awaiting |-> NoPass,
                        result |-> [success |-> TRUE, totalCount |-> 0, monthsSynced |-> 0]]]
            /\ UNCHANGED <<isSyncing, syncPromise, pass>>
       ELSE /\ isSyncing' = TRUE
            /\ syncPromise' = <<c, 1>>
            /\ pass' = [pass EXCEPT ![<<c, 1>>] = [IdlePass EXCEPT !.kind = "syncAll", !.phase = "list"],
                                    ![<<c, 2>>] = [IdlePass EXCEPT !.kind = "syncAll", !.phase = "list"]]
            /\ call' = [call EXCEPT ![c] = [op |-> "syncAll", status |-> "running",
                                            awaiting |-> NoPass, result |-> NoResult]]
    /\ UNCHANGED <<now, tz, remote, viewMonth, idb, txn, reader, lastRead, progress, beVars, uiVars>>

\* 'await this.syncPromise' of a caller that found isSyncing set
syncAllNeededMonthsResume(c) ==
    /\ call[c].status = "waiting"
    /\ pass[call[c].awaiting].phase \in {"done", "failed"}
    /\ call' = [call EXCEPT ![c] =
                   IF pass[call[c].awaiting].phase = "failed" THEN [@ EXCEPT !.status = "threw"]
                   ELSE [@ EXCEPT !.status = "done",
                            !.result = [success |-> TRUE, totalCount |-> 0, monthsSynced |-> 0]]]
    /\ UNCHANGED <<now, tz, remote, viewMonth, idb, txn, reader, lastRead, isSyncing,
                   syncPromise, pass, progress, beVars, uiVars>>

\* syncOperation: 'await bookingDatabaseService.getMonthsNeedingSync(12, 6)'
syncOperationList(p) ==
    /\ pass[p].phase = "list"
    /\ LET monthsNeeded == getMonthsNeedingSync(idb, now, tz)
       IN  Settle(p, IF Len(monthsNeeded) = 0 THEN [pass[p] EXCEPT !.phase = "done"]
                     ELSE [pass[p] EXCEPT !.phase = "fetch", !.months = monthsNeeded, !.i = 1])
    /\ UNCHANGED <<now, tz, remote, viewMonth, idb, txn, reader, lastRead, progress, beVars, uiVars>>

\* syncOperation: getMonthsNeedingSync rejects (a request of monthNeedsSync fails, or
\* the database does not open): the first syncOperation() rejects syncPromise, the
\* awaited one throws out of syncAllNeededMonths through 'finally'
syncOperationListFails(p) ==
    /\ pass[p].phase = "list"
    /\ pass' = [pass EXCEPT ![p] = [@ EXCEPT !.phase = "failed"]]
    /\ IF p[2] = 1 THEN UNCHANGED <<call, isSyncing, syncPromise>>
       ELSE /\ call' = [call EXCEPT ![p[1]] = [@ EXCEPT !.status = "threw"]]
            /\ isSyncing' = FALSE
            /\ syncPromise' = NoPass
    /\ UNCHANGED <<now, tz, remote, viewMonth, idb, txn, reader, lastRead, progress, beVars, uiVars>>

forceFullSync(c) ==
    /\ call[c].status = "idle"
    /\ call' = [call EXCEPT ![c] = [op |-> "force", status |-> "running",
                                    awaiting |-> NoPass, result |-> NoResult]]
    /\ pass' = [pass EXCEPT ![<<c, 1>>] = [IdlePass EXCEPT !.kind = "force", !.phase = "clear"]]
    /\ UNCHANGED <<now, tz, remote, viewMonth, idb, txn, reader, lastRead, isSyncing,
                   syncPromise, progress, beVars, uiVars>>

\* forceFullSync: 'await bookingDatabaseService.clearAll()' and the list of months
forceFullSyncClear(p) ==
    /\ pass[p].phase = "clear"
    /\ ~txn.active /\ ~reader.pending
    /\ idb' = clearAll(idb)
    /\ pass' = [pass EXCEPT ![p] = [@ EXCEPT !.phase = "fetch", !.months = MonthsToCheck(now, tz), !.i = 1]]
    /\ UNCHANGED <<now, tz, remote, viewMonth, txn, reader, lastRead, isSyncing, syncPromise,
                   call, progress, beVars, uiVars>>

forceSyncMonth(c, monthKey) ==
    /\ call[c].status = "idle"
    /\ call' = [call EXCEPT ![c] = [op |-> "month", status |-> "running",
                                    awaiting |-> NoPass, result |-> NoResult]]
    /\ pass' = [pass EXCEPT ![<<c, 1>>] =
                   [IdlePass EXCEPT !.kind = "month", !.phase = "fetch", !.months = <<monthKey>>, !.i = 1]]
    /\ UNCHANGED <<now, tz, remote, viewMonth, idb, txn, reader, lastRead, isSyncing,
                   syncPromise, progress, beVars, uiVars>>

\* ensureMonthSynced: syncMonth only when monthNeedsSync
ensureMonthSynced(c, monthKey) ==
    /\ call[c].status = "idle"
    /\ call' = [call EXCEPT ![c] =
                 [op |-> "ensure", status |-> IF monthNeedsSync(idb, monthKey, now, tz) THEN "running" ELSE "done",
                  awaiting |-> NoPass,
                  result |-> [success |-> TRUE, totalCount |-> 0, monthsSynced |-> 0]]]
    /\ pass' = [pass EXCEPT ![<<c, 1>>] =
                   IF monthNeedsSync(idb, monthKey, now, tz)
                   THEN [IdlePass EXCEPT !.kind = "ensure", !.phase = "fetch", !.months = <<monthKey>>, !.i = 1]
                   ELSE [IdlePass EXCEPT !.kind = "ensure", !.phase = "done", !.months = <<monthKey>>]]
    /\ UNCHANGED <<now, tz, remote, viewMonth, idb, txn, reader, lastRead, isSyncing,
                   syncPromise, progress, beVars, uiVars>>

\* onProgress(...) and syncMonth up to 'await storeBookingsForMonth'
syncMonthFetch(p) ==
    /\ pass[p].phase = "fetch"
    /\ LET rec == pass[p]
           monthKey == rec.months[rec.i]
           f == SyncMonthFetch(remote, monthKey, tz)
       IN  /\ progress' = IF rec.kind \in {"syncAll", "force"}
                          THEN [progress EXCEPT ![p[1]] = @ (+) SetToBag({[current |-> rec.i,
                                        total |-> Len(rec.months), monthKey |-> monthKey]})]
                          ELSE progress
           /\ IF f.store
              THEN Settle(p, [rec EXCEPT !.phase = "store", !.fetched = f.bookings])
              ELSE Settle(p, AfterSyncMonth(rec, ~f.threw, 0))
    /\ UNCHANGED <<now, tz, remote, viewMonth, idb, txn, reader, lastRead, beVars, uiVars>>

\* storeBookingsForMonth: the transaction is created and its requests are placed
syncMonthStore(p) ==
    /\ pass[p].phase = "store"
    /\ ~txn.active /\ ~reader.pending
    /\ txn' = BeginStore(p, pass[p].months[pass[p].i], pass[p].fetched)
    /\ pass' = [pass EXCEPT ![p] = [@ EXCEPT !.phase = "commit"]]
    /\ UNCHANGED <<now, tz, remote, viewMonth, idb, reader, lastRead, isSyncing, syncPromise,
                   call, progress, beVars, uiVars>>

\* transaction.oncomplete, and syncMonth returns { success: true, count }
syncMonthStored(p) ==
    /\ pass[p].phase = "commit"
    /\ txn.active /\ txn.owner = p
    /\ idb' = txn.work
    /\ txn' = NoTxn
    /\ Settle(p, AfterSyncMonth(pass[p], TRUE, Len(pass[p].fetched)))
    /\ UNCHANGED <<now, tz, remote, viewMonth, reader, lastRead, progress, beVars, uiVars>>

\* transaction.onerror: a request of the transaction failed, the transaction is
\* aborted with nothing written, and syncMonth returns { success: false, count: 0 }
syncMonthStoreFails(p) ==
    /\ pass[p].phase = "commit"
    /\ txn.active /\ txn.owner = p
    /\ txn' = NoTxn
    /\ Settle(p, AfterSyncMonth(pass[p], FALSE, 0))
    /\ UNCHANGED <<now, tz, remote, viewMonth, idb, reader, lastRead, progress, beVars, uiVars>>

\* the caller issues its next call
CallReturn(c) ==
    /\ call[c].status = "done"
    /\ call' = [call EXCEPT ![c] = IdleCall]
    /\ pass' = [pass EXCEPT ![<<c, 1>>] = IdlePass, ![<<c, 2>>] = IdlePass]
    /\ progress' = [progress EXCEPT ![c] = EmptyBag]
    /\ UNCHANGED <<now, tz, remote, viewMonth, idb, txn, reader, lastRead, isSyncing,
                   syncPromise, beVars, uiVars>>

Tick ==
    /\ now < StartInstant + MaxElapsed
    /\ now' = now + 1
    /\ UNCHANGED <<tz, remote, viewMonth, feVars, beVars, uiVars>>

---------------------------------------------------------------------------
(* Direct use of the database service: writers and readers *)

MonthBookings(monthKey) ==
    SelectSeq(RemoteAppointments, LAMBDA a : BookingMonth(a) = monthKey)

\* the lists syncMonth can hand to storeBookingsForMonth for a month: bookings of
\* that month, in any order, a booking possibly returned twice
StoreInputs(monthKey) ==
    LET S == {a \in {RemoteAppointments[k] : k \in 1..Len(RemoteAppointments)} :
                  BookingMonth(a) = monthKey}
    IN  {<<>>} \cup {<<a>> : a \in S} \cup {<<a, b>> : a \in S, b \in S}

StoreCall(monthKey, bookings) ==
    /\ ~txn.active /\ ~reader.pending
    /\ txn' = BeginStore(DirectWriter, monthKey, bookings)
    /\ UNCHANGED <<now, tz, remote, viewMonth, idb, reader, lastRead, isSyncing, syncPromise,
                   call, pass, progress, beVars, uiVars>>

StoreComplete ==
    /\ txn.active /\ txn.owner = DirectWriter
    /\ idb' = txn.work
    /\ txn' = NoTxn
    /\ UNCHANGED <<now, tz, remote, viewMonth, reader, lastRead, isSyncing, syncPromise,
                   call, pass, progress, beVars, uiVars>>

ClearCall ==
    /\ ~txn.active /\ ~reader.pending
    /\ idb' = clearAll(idb)
    /\ UNCHANGED <<now, tz, remote, viewMonth, txn, reader, lastRead, isSyncing, syncPromise,
                   call, pass, progress, beVars, uiVars>>

\* getBookingsForMonth / getSyncStatus: a readonly transaction is created; it runs
\* once the readwrite transaction created before it has finished
ReadIssue(monthKey) ==
    /\ ~reader.pending
    /\ reader' = [pending |-> TRUE, monthKey |-> monthKey,
                  during |-> txn.active /\ txn.monthKey = monthKey,
                  old |-> IF txn.active /\ txn.monthKey = monthKey THEN txn.old ELSE NoReader.old,
                  intended |-> IF txn.active /\ txn.monthKey = monthKey THEN txn.intended
                               ELSE NoReader.intended]
    /\ UNCHANGED <<now, tz, remote, viewMonth, idb, txn, lastRead, isSyncing, syncPromise,
                   call, pass, progress, beVars, uiVars>>

ReadComplete ==
    /\ reader.pending
    /\ ~txn.active
    /\ lastRead' = [valid |-> TRUE, monthKey |-> reader.monthKey, during |-> reader.during,
                    result |-> BucketView(idb, reader.monthKey),
                    old |-> reader.old, intended |-> reader.intended]
    /\ reader' = NoReader
    /\ UNCHANGED <<now, tz, remote, viewMonth, idb, txn, isSyncing, syncPromise,
                   call, pass, progress, beVars, uiVars>>

---------------------------------------------------------------------------
(* Backend: database.js and syncService.js *)

BackendModes == RemoteModes \cup {"noCreds", "biz1Down"}
Invokers == {"scheduled", "trigger"}

Row(a, monthKey) == [id |-> a.id, month_key |-> monthKey, start |-> a.start, end |-> a.end]

\* INSERT INTO bookings: id is the PRIMARY KEY, an id already there aborts
RECURSIVE InsertAll(_, _, _)
InsertAll(rows, bookings, monthKey) ==
    IF bookings = <<>> THEN [ok |-> TRUE, rows |-> rows]
    ELSE IF \E r \in rows : r.id = Head(bookings).id THEN [ok |-> FALSE, rows |-> rows]
    ELSE InsertAll(rows \cup {Row(Head(bookings), monthKey)}, Tail(bookings), monthKey)

\* the same statements run without db.transaction: a throw leaves the DELETE and
\* the rows inserted before it in place
sqlStoreBookingsForMonthNoRollback(db, monthKey, bookings, t) ==
    LET ins == InsertAll({r \in db.bookings : r.month_key # monthKey}, bookings, monthKey)
    IN  IF ins.ok
        THEN [ok |-> TRUE,
              db |-> [bookings |-> ins.rows,
                      meta |-> PutMeta(db.meta, MonthSyncMetadata(monthKey, t, Len(bookings)))]]
        ELSE [ok |-> FALSE, db |-> [db EXCEPT !.bookings = ins.rows]]

\* db.transaction(() => { DELETE; INSERT ...; INSERT OR REPLACE metadata })():
\* all of it or, when a statement throws, none of it
sqlStoreBookingsForMonth(db, monthKey, bookings, t) ==
    LET ins == InsertAll({r \in db.bookings : r.month_key # monthKey}, bookings, monthKey)
    IN  IF ins.ok
        THEN [ok |-> TRUE,
              db |-> [bookings |-> ins.rows,
                      meta |-> PutMeta(db.meta, MonthSyncMetadata(monthKey, t, Len(bookings)))]]
        ELSE [ok |-> FALSE, db |-> db]

\* new Date(year, month - 1, 1) .. new Date(year, month, 0, 23, 59, 59), local time
backendMonthRange(monthKey, z) ==
    [start |-> monthKey * MonthLen - z, end |-> (monthKey + 1) * MonthLen - z - 1]

\* syncService.js syncMonth: [success, count, db]
backendSyncMonth(db, mode, monthKey, t, z) ==
    IF mode = "down" THEN [success |-> FALSE, count |-> 0, db |-> db]
    ELSE LET businesses == getBookingBusinesses(mode)
             range == backendMonthRange(monthKey, z)
         IN  IF Len(businesses) = 0
             THEN LET st == sqlStoreBookingsForMonth(db, monthKey, <<>>, t)
                  IN  [success |-> TRUE, count |-> 0, db |-> st.db]
             ELSE LET appointments == IF SourceFails(mode, businesses[1], monthKey) THEN <<>>
                                      ELSE getBookingAppointments(businesses[1], range.start, range.end)
                      monthAppointments == SelectSeq(appointments, LAMBDA a : BookingMonth(a) = monthKey)
                      st == sqlStoreBookingsForMonth(db, monthKey, monthAppointments, t)
                  IN  [success |-> st.ok, count |-> IF st.ok THEN Len(monthAppointments) ELSE 0,
                       db |-> st.db]

IdleSync == [phase |-> "idle", months |-> <<>>, i |-> 0, totalCount |-> 0, successCount |-> 0,
             success |-> FALSE]

\* syncAllBookings up to 'await getAccessToken()'
syncAllBookings(k) ==
    /\ bsync[k].phase = "idle"
    /\ bsync' = [bsync EXCEPT ![k] = IF remote = "noCreds"
                                     THEN [IdleSync EXCEPT !.phase = "done"]
                                     ELSE [IdleSync EXCEPT !.phase = "token"]]
    /\ UNCHANGED <<now, tz, remote, viewMonth, feVars, sqlite, posted, uiVars>>

\* the token arrives or the request throws; the months to sync are listed
syncAllBookingsToken(k) ==
    /\ bsync[k].phase = "token"
    /\ bsync' = [bsync EXCEPT ![k] = IF remote = "down"
                                     THEN [@ EXCEPT !.phase = "done"]
                                     ELSE [@ EXCEPT !.phase = "months", !.i = 1,
                                                    !.months = MonthsToCheck(now, tz)]]
    /\ UNCHANGED <<now, tz, remote, viewMonth, feVars, sqlite, posted, uiVars>>

\* one turn of 'for (const monthKey of monthsToSync)'
syncAllBookingsMonth(k) ==
    /\ bsync[k].phase = "months"
    /\ LET rec == bsync[k]
           result == backendSyncMonth(sqlite, remote, rec.months[rec.i], now, tz)
           r == [rec EXCEPT !.totalCount = @ + (IF result.success THEN result.count ELSE 0),
                            !.successCount = @ + (IF result.success THEN 1 ELSE 0)]
       IN  /\ sqlite' = result.db
           /\ bsync' = [bsync EXCEPT ![k] = IF rec.i < Len(rec.months) THEN [r EXCEPT !.i = @ + 1]
                                            ELSE [r EXCEPT !.phase = "done", !.success = TRUE]]
    /\ UNCHANGED <<now, tz, remote, viewMonth, feVars, posted, uiVars>>

\* the handler or the scheduler has its result; the next interval or request may come
syncAllBookingsDone(k) ==
    /\ bsync[k].phase = "done"
    /\ bsync' = [bsync EXCEPT ![k] = IdleSync]
    /\ UNCHANGED <<now, tz, remote, viewMonth, feVars, sqlite, posted, uiVars>>

PostMonths == {StartMonth, StartMonth + 1}

\* the bookings arrays a client may post: none or one of the appointments
PostBodies == {<<>>} \cup {<<RemoteAppointments[k]>> : k \in 1..Len(RemoteAppointments)}

\* POST /api/bookings/sync
postBookingsSync(monthKey, bookings) ==
    LET st == sqlStoreBookingsForMonth(sqlite, monthKey, bookings, now)
    IN  /\ sqlite' = st.db
        /\ posted' = IF st.ok THEN [status |-> 200, stored |-> Len(bookings), months |-> 1]
                     ELSE [status |-> 500, stored |-> 0, months |-> 0]
        /\ UNCHANGED <<now, tz, remote, viewMonth, feVars, bsync, uiVars>>

\* POST /api/bookings/sync-batch with two months: each month is its own transaction,
\* and a throw leaves the months before it stored
postBookingsSyncBatch(m1, b1, m2, b2) ==
    LET s1 == sqlStoreBookingsForMonth(sqlite, m1, b1, now)
        s2 == sqlStoreBookingsForMonth(s1.db, m2, b2, now)
    IN  /\ sqlite' = IF s1.ok THEN s2.db ELSE s1.db
        /\ posted' = IF s1.ok /\ s2.ok
                     THEN [status |-> 200, stored |-> Len(b1) + Len(b2), months |-> 2]
                     ELSE [status |-> 500, stored |-> 0, months |-> 0]
        /\ UNCHANGED <<now, tz, remote, viewMonth, feVars, bsync, uiVars>>

---------------------------------------------------------------------------
(* Specifications *)

\* a database left by an earlier session: the start month synced three hours ago,
\* the month after it never, every other month of the window an hour ago
SeededDb ==
    [bookings |-> {StoredBooking(RemoteAppointments[1], StartMonth, StartInstant - 3 * TicksPerHour)},
     meta |-> {MonthSyncMetadata(StartMonth, StartInstant - 3 * TicksPerHour, 1)}
                \cup {MonthSyncMetadata(m, StartInstant - TicksPerHour, 0) :
                        m \in ((StartMonth - monthsBehind)..(StartMonth + monthsAhead))
                                \ {StartMonth, StartMonth + 1}}]

\* nothing listed or reconciled yet
StartDate == [y |-> YearOf(StartMonth), m |-> MonthOf(StartMonth), d |-> 1]
NoList == [by |-> "none", checked |-> <<>>, needing |-> <<>>]
NoRecon == [applied |-> "none", events |-> <<>>, bookings |-> <<>>, out |-> <<>>, threw |-> FALSE]

NoPaging == [pages |-> <<>>, by |-> "none", result |-> <<>>, raised |-> FALSE]

\* the state of the hook after useState: the initial range, no events, not loading,
\* no error; no fetchEvents invocation yet
NoHook ==
    [currentRange |-> 1, events |-> <<>>, loading |-> FALSE, error |-> FALSE, fetches |-> <<>>]

InitNetIdle ==
    /\ paging = NoPaging
    /\ hook = NoHook

InitUiIdle ==
    /\ today = StartDate
    /\ listed = NoList
    /\ recon = NoRecon
    /\ InitNetIdle

NoPost == [status |-> 0, stored |-> 0, months |-> 0]

InitBackendIdle ==
    /\ sqlite = EmptyDb
    /\ bsync = [k \in Invokers |-> IdleSync]
    /\ posted = NoPost

InitService ==
    /\ txn = NoTxn
    /\ reader = NoReader
    /\ lastRead = NoRead
    /\ isSyncing = FALSE
    /\ syncPromise = NoPass
    /\ call = [c \in Callers |-> IdleCall]
    /\ pass = [p \in PassIds |-> IdlePass]
    /\ progress = [c \in Callers |-> EmptyBag]

\* Spec: concurrent callers of syncAllNeededMonths
Init ==
    /\ now = StartInstant
    /\ tz = LocalTz
    /\ viewMonth = StartMonth
    /\ remote \in RemoteModes
    /\ idb \in {EmptyDb, SeededDb}
    /\ InitService
    /\ InitBackendIdle
    /\ InitUiIdle

Next ==
    \/ \E c \in Callers : syncAllNeededMonths(c)
    \/ \E c \in Callers : syncAllNeededMonthsResume(c)
    \/ \E p \in PassIds : syncOperationList(p)
    \/ \E p \in PassIds : syncMonthFetch(p)
    \/ \E p \in PassIds : syncMonthStore(p)
    \/ \E p \in PassIds : syncMonthStored(p)

Spec == Init /\ [][Next]_vars

\* SpecGuard: concurrent callers of syncAllNeededMonths over a database whose
\* requests may fail; every pending promise settles and every caller that waits
\* resumes
InitGuard ==
    /\ now = StartInstant
    /\ tz = LocalTz
    /\ viewMonth = StartMonth
    /\ remote = "up"
    /\ idb = SeededDb
    /\ InitService
    /\ InitBackendIdle
    /\ InitUiIdle

NextGuard ==
    \/ \E c \in Callers : syncAllNeededMonths(c)
    \/ \E c \in Callers : syncAllNeededMonthsResume(c)
    \/ \E p \in PassIds : syncOperationList(p)
    \/ \E p \in PassIds : syncOperationListFails(p)
    \/ \E p \in PassIds : syncMonthFetch(p)
    \/ \E p \in PassIds : syncMonthStore(p)
    \/ \E p \in PassIds : syncMonthStored(p)
    \/ \E p \in PassIds : syncMonthStoreFails(p)

SpecGuard ==
    /\ InitGuard /\ [][NextGuard]_vars
    /\ \A c \in Callers : WF_vars(syncAllNeededMonthsResume(c))
    /\ \A p \in PassIds :
           WF_vars(syncOperationList(p) \/ syncOperationListFails(p) \/ syncMonthFetch(p)
                      \/ syncMonthStore(p) \/ syncMonthStored(p) \/ syncMonthStoreFails(p))

\* SpecForce: concurrent callers of forceFullSync
NextForce ==
    \/ \E c \in Callers : forceFullSync(c)
    \/ \E p \in PassIds : forceFullSyncClear(p)
    \/ \E p \in PassIds : syncMonthFetch(p)
    \/ \E p \in PassIds : syncMonthStore(p)
    \/ \E p \in PassIds : syncMonthStored(p)

SpecForce == Init /\ [][NextForce]_vars

\* SpecFault: one call of syncAllNeededMonths during a partial outage, over a
\* database whose start month and the month after it are stale
InitFault ==
    /\ now = StartInstant
    /\ tz = LocalTz
    /\ viewMonth = StartMonth
    /\ remote \in {"up"} \cup FaultModes
    /\ idb = SeededDb
    /\ InitService
    /\ InitBackendIdle
    /\ InitUiIdle

NextFault ==
    \/ syncAllNeededMonths(1)
    \/ \E k \in {1, 2} : syncOperationList(<<1, k>>)
    \/ \E k \in {1, 2} : syncMonthFetch(<<1, k>>)
    \/ \E k \in {1, 2} : syncMonthStore(<<1, k>>)
    \/ \E k \in {1, 2} : syncMonthStored(<<1, k>>)
    \/ \E k \in {1, 2} : syncMonthStoreFails(<<1, k>>)

SpecFault == InitFault /\ [][NextFault]_vars

\* SpecMonth: one caller syncing the month on view again and again as time passes
InitMonth ==
    /\ now = StartInstant
    /\ tz \in TzOffsets
    /\ viewMonth \in (StartMonth - 1)..(StartMonth + 1)
    /\ remote \in RemoteModes
    /\ idb = EmptyDb
    /\ InitService
    /\ InitBackendIdle
    /\ InitUiIdle

NextMonth ==
    \/ forceSyncMonth(1, viewMonth)
    \/ ensureMonthSynced(1, viewMonth)
    \/ syncMonthFetch(<<1, 1>>)
    \/ syncMonthStore(<<1, 1>>)
    \/ syncMonthStored(<<1, 1>>)
    \/ CallReturn(1)
    \/ Tick

SpecMonth == InitMonth /\ [][NextMonth]_vars

\* the database after a sync of StartMonth made when appointment 3, since moved to
\* the next month at the remote, still started in StartMonth
MovedDb ==
    LET was == [RemoteAppointments[3] EXCEPT !.start = StartMonth * MonthLen + 30 * TicksPerHour,
                                            !.end = StartMonth * MonthLen + 31 * TicksPerHour]
    IN  [bookings |-> {StoredBooking(was, StartMonth, StartInstant - 3 * TicksPerHour)},
         meta |-> {MonthSyncMetadata(StartMonth, StartInstant - 3 * TicksPerHour, 1)}]

\* SpecMoved: syncMonth of the shown month over MovedDb
InitMoved ==
    /\ now = StartInstant
    /\ tz = LocalTz
    /\ viewMonth \in {StartMonth, StartMonth + 1}
    /\ remote \in RemoteModes
    /\ idb = MovedDb
    /\ InitService
    /\ InitBackendIdle
    /\ InitUiIdle

SpecMoved == InitMoved /\ [][NextMonth]_vars

\* SpecStore: writers and readers of the database service
InitStore ==
    /\ now = StartInstant
    /\ tz = LocalTz
    /\ viewMonth = StartMonth
    /\ remote = "up"
    /\ idb = EmptyDb
    /\ InitService
    /\ InitBackendIdle
    /\ InitUiIdle

NextStore ==
    \/ \E m \in {StartMonth, StartMonth + 1} : \E bookings \in StoreInputs(m) : StoreCall(m, bookings)
    \/ StoreComplete
    \/ ClearCall
    \/ \E m \in {StartMonth, StartMonth + 1} : ReadIssue(m)
    \/ ReadComplete

SpecStore == InitStore /\ [][NextStore]_vars

\* SpecBackend: the scheduled sync and POST sync/trigger
InitBackend ==
    /\ now = StartInstant
    /\ tz = LocalTz
    /\ viewMonth = StartMonth
    /\ remote \in BackendModes
    /\ idb = EmptyDb
    /\ InitService
    /\ InitBackendIdle
    /\ InitUiIdle

NextBackend ==
    \/ \E k \in Invokers : syncAllBookings(k)
    \/ \E k \in Invokers : syncAllBookingsToken(k)
    \/ \E k \in Invokers : syncAllBookingsMonth(k)
    \/ \E k \in Invokers : syncAllBookingsDone(k)

SpecBackend == InitBackend /\ [][NextBackend]_vars

\* SpecPost: the POST bookings handlers beside a triggered sync
NextPost ==
    \/ syncAllBookings("trigger")
    \/ syncAllBookingsToken("trigger")
    \/ syncAllBookingsMonth("trigger")
    \/ syncAllBookingsDone("trigger")
    \/ \E m \in PostMonths : \E bookings \in PostBodies : postBookingsSync(m, bookings)
    \/ \E m1 \in PostMonths : \E m2 \in PostMonths \ {m1} :
          \E b1 \in PostBodies : \E b2 \in PostBodies : postBookingsSyncBatch(m1, b1, m2, b2)

SpecPost == InitBackend /\ [][NextPost]_vars

\* SpecList: the month window is listed on every day of two years, over a
\* database with fresh, stale and missing months
\* a database synced around t: the month of t three hours before, the month after
\* it never, the other months of the window an hour before
SeededAt(t) ==
    [bookings |-> {},
     meta |-> {MonthSyncMetadata(getMonthKey(t, LocalTz), t - 3 * TicksPerHour, 0)}
                \cup {MonthSyncMetadata(m, t - TicksPerHour, 0) :
                        m \in ((getMonthKey(t, LocalTz) - monthsBehind)..(getMonthKey(t, LocalTz) + monthsAhead))
                                \ {getMonthKey(t, LocalTz), getMonthKey(t, LocalTz) + 1}}]

\* bookingDatabaseService.getMonthsNeedingSync(12, 6) called on the date today
getMonthsNeedingSyncCall ==
    /\ listed' = [by |-> "getMonthsNeedingSync", checked |-> monthsToCheck(today),
                  needing |-> SelectSeq(monthsToCheck(today),
                                        LAMBDA m : monthNeedsSync(idb, m, now, tz))]
    /\ UNCHANGED <<now, tz, remote, viewMonth, feVars, beVars, today, recon, paging, hook>>

\* syncAllBookings: 'Generate months to sync' on the date today
syncAllBookingsList ==
    /\ listed' = [by |-> "syncAllBookings", checked |-> monthsToSync(today),
                  needing |-> monthsToSync(today)]
    /\ UNCHANGED <<now, tz, remote, viewMonth, feVars, beVars, today, recon, paging, hook>>

InitList ==
    /\ today \in Dates
    /\ now = InstantOf(today)
    /\ tz = LocalTz
    /\ viewMonth = StartMonth
    /\ remote = "up"
    /\ idb \in {EmptyDb, SeededAt(now)}
    /\ InitService
    /\ InitBackendIdle
    /\ listed = NoList
    /\ recon = NoRecon
    /\ InitNetIdle

NextList ==
    \/ getMonthsNeedingSyncCall
    \/ syncAllBookingsList

SpecList == InitList /\ [][NextList]_vars

---------------------------------------------------------------------------
(* Reconciliation of calendar events with bookings: enrichEventsWithBookingData *)

\* A string is the sequence of its characters.
Lower(c) == CASE c = "L" -> "l" [] c = "Y" -> "y" [] c = "R" -> "r" [] OTHER -> c
IsAlnum(c) == c \in {"l", "a", "b", "y", "r", "d", "o", "m", "1", "2"}

toLowerCase(str) == [i \in 1..Len(str) |-> Lower(str[i])]

\* name.toLowerCase().replace(/[^a-z0-9]/g, '').trim()
normalizeRoomName(name) == SelectSeq(toLowerCase(name), IsAlnum)

\* String.prototype.includes
includes(str, part) ==
    \E i \in 0..(Len(str) - Len(part)) : SubSeq(str, i + 1, i + Len(part)) = part

\* str.split('@')[0]
RECURSIVE localPart(_)
localPart(str) ==
    IF str = <<>> \/ Head(str) = "@" THEN <<>> ELSE <<Head(str)>> \o localPart(Tail(str))

\* str.split(separators).filter(w => w.length > 2): the runs of other characters
\* longer than two
RECURSIVE splitWords(_, _, _)
splitWords(str, separators, word) ==
    IF str = <<>> THEN (IF Len(word) > 2 THEN <<word>> ELSE <<>>)
    ELSE IF Head(str) \in separators
         THEN (IF Len(word) > 2 THEN <<word>> ELSE <<>>) \o splitWords(Tail(str), separators, <<>>)
         ELSE splitWords(Tail(str), separators, Append(word, Head(str)))

NoLocation == [present |-> FALSE, displayName |-> <<>>, locationUri |-> <<>>,
               locationEmailAddress |-> <<>>]

\* useCalendarEvents.ts locationMatchesRoom: the URI, then the display name against
\* the local part of the room id
locationMatchesRoom(booking, event) ==
    IF ~booking.serviceLocation.present THEN FALSE
    ELSE LET bookingLocation == booking.serviceLocation.displayName
             bookingUri == booking.serviceLocation.locationUri
             eventRoomId == event.roomId
             normalizedBookingLoc == normalizeRoomName(bookingLocation)
             normalizedRoomId == normalizeRoomName(localPart(eventRoomId))
         IN  \/ /\ bookingUri # <<>> /\ eventRoomId # <<>>
                /\ toLowerCase(bookingUri) = toLowerCase(eventRoomId)
             \/ /\ normalizedBookingLoc # <<>> /\ normalizedRoomId # <<>>
                /\ \/ normalizedBookingLoc = normalizedRoomId
                   \/ includes(normalizedBookingLoc, normalizedRoomId)
                   \/ includes(normalizedRoomId, normalizedBookingLoc)

\* storageService.ts locationMatchesRoom: the URI, the email address, the display
\* names, the local part of the room id, the words
locationMatchesRoomSixRules(booking, event) ==
    IF ~booking.serviceLocation.present THEN FALSE
    ELSE LET bookingLocation == booking.serviceLocation.displayName
             bookingEmail == booking.serviceLocation.locationEmailAddress
             bookingUri == booking.serviceLocation.locationUri
             eventLocation == event.location
             eventRoomId == event.roomId
             normalizedBookingLoc == normalizeRoomName(bookingLocation)
             normalizedEventLoc == normalizeRoomName(eventLocation)
             normalizedRoomId == normalizeRoomName(localPart(eventRoomId))
             bookingWords == splitWords(toLowerCase(bookingLocation), {" "}, <<>>)
             eventWords == splitWords(toLowerCase(eventLocation), {" "}, <<>>)
             roomIdWords == splitWords(toLowerCase(localPart(eventRoomId)), {".", "-", "_"}, <<>>)
             someWord(words, bw) ==
                 \E k \in 1..Len(words) : includes(words[k], bw) \/ includes(bw, words[k])
         IN  \/ /\ bookingUri # <<>> /\ eventRoomId # <<>>
                /\ toLowerCase(bookingUri) = toLowerCase(eventRoomId)
             \/ /\ bookingEmail # <<>> /\ eventRoomId # <<>>
                /\ toLowerCase(bookingEmail) = toLowerCase(eventRoomId)
             \/ /\ normalizedBookingLoc # <<>> /\ normalizedEventLoc # <<>>
                /\ \/ normalizedBookingLoc = normalizedEventLoc
                   \/ includes(normalizedBookingLoc, normalizedEventLoc)
                   \/ includes(normalizedEventLoc, normalizedBookingLoc)
             \/ /\ normalizedBookingLoc # <<>> /\ normalizedRoomId # <<>>
                /\ \/ normalizedBookingLoc = normalizedRoomId
                   \/ includes(normalizedBookingLoc, normalizedRoomId)
                   \/ includes(normalizedRoomId, normalizedBookingLoc)
             \/ /\ Len(bookingWords) > 0
                /\ \A k \in 1..Len(bookingWords) :
                      someWord(eventWords, bookingWords[k]) \/ someWord(roomIdWords, bookingWords[k])

\* Event and booking times are counted in ticks of UTC, TicksPerMinute to the
\* minute.  A dateTime string is [wall, utcMarked]: the wall time it spells and
\* whether it ends in 'Z'.
DayTicks == 24 * 60 * TicksPerMinute

\* the offset of the local zone in these ticks
localOffset(z) == (z * 60 * TicksPerMinute) \div TicksPerHour

\* parseISO: a string without a zone is local wall time
parseISO(dateStr, z) == IF dateStr.utcMarked THEN dateStr.wall ELSE dateStr.wall - localOffset(z)

\* parseBookingDate: 'Z' is appended to a string that carries no zone
parseBookingDate(dateObj, z) == parseISO([dateObj.dateTime EXCEPT !.utcMarked = TRUE], z)

\* the event's strings get a 'Z' only when its timeZone is UTC
parseEventDate(dateObj, z) ==
    parseISO(IF dateObj.timeZone \in {"UTC", "Etc/UTC"}
             THEN [dateObj.dateTime EXCEPT !.utcMarked = TRUE] ELSE dateObj.dateTime, z)

\* a comparison of UTC dates where the local ones are meant
isSameDayUTC(a, b, z) == a \div DayTicks = b \div DayTicks

\* date-fns isSameDay: the same local calendar day
isSameDay(a, b, z) == (a + localOffset(z)) \div DayTicks = (b + localOffset(z)) \div DayTicks

\* date-fns differenceInMinutes: full minutes, truncated toward zero
differenceInMinutes(later, earlier) ==
    IF later >= earlier THEN (later - earlier) \div TicksPerMinute
    ELSE 0 - ((earlier - later) \div TicksPerMinute)

Abs(n) == IF n < 0 THEN 0 - n ELSE n

\* the tolerance of the first version of the hook
acceptedWithin10(startDiff, timesOverlap) == startDiff <= 10

\* 'if (startDiff <= 30 || timesOverlap)'
accepted(startDiff, timesOverlap) == startDiff <= 30 \/ timesOverlap

roomMatches(version, booking, event) ==
    IF version = "useCalendarEvents" THEN locationMatchesRoom(booking, event)
    ELSE locationMatchesRoomSixRules(booking, event)

\* the callback of bookings.map: is booking k a potential match of the event
isPotentialMatch(version, event, booking, z) ==
    LET eventStart == parseEventDate(event.start, z)
        eventEnd == parseEventDate(event.end, z)
        bookingStart == parseBookingDate(booking.startDateTime, z)
        bookingEnd == parseBookingDate(booking.endDateTime, z)
        startDiff == Abs(differenceInMinutes(eventStart, bookingStart))
        timesOverlap == eventStart < bookingEnd /\ eventEnd > bookingStart
    IN  /\ isSameDay(eventStart, bookingStart, z)
        /\ roomMatches(version, booking, event)
        /\ accepted(startDiff, timesOverlap)

\* bookings.map(...).filter(match => match !== null): { booking, startDiff }
potentialMatches(version, event, bookings, z) ==
    LET all == [k \in 1..Len(bookings) |->
                  [booking |-> bookings[k],
                   startDiff |-> Abs(differenceInMinutes(parseEventDate(event.start, z),
                                             parseBookingDate(bookings[k].startDateTime, z)))]]
    IN  SelectSeq(all, LAMBDA match : isPotentialMatch(version, event, match.booking, z))

\* the matches left in the order of the bookings
unsortedMatches(matches) == matches

\* potentialMatches.sort((a, b) => a.startDiff - b.startDiff): Array.prototype.sort
\* is stable
RECURSIVE sortByStartDiff(_)
sortByStartDiff(matches) ==
    IF matches = <<>> THEN <<>>
    ELSE LET x == matches[Len(matches)]
             sorted == sortByStartDiff(SubSeq(matches, 1, Len(matches) - 1))
         IN  SelectSeq(sorted, LAMBDA y : y.startDiff <= x.startDiff) \o <<x>>
                 \o SelectSeq(sorted, LAMBDA y : y.startDiff > x.startDiff)

\* a customers list, or a customQuestionAnswers list, the record does not have
NoCustomers == [present |-> FALSE, list |-> <<>>]

\* qa.answer && qa.answer.trim(): the answer has a character that is not white space
\* (an answer the record does not have is the empty string here)
hasAnswer(answer) == \E j \in 1..Len(answer) : answer[j] # " "

\* the { question, answer } pairs pushed for one customer
answersOf(customer) ==
    IF customer.customQuestionAnswers.present
    THEN SelectSeq(customer.customQuestionAnswers.list, LAMBDA qa : hasAnswer(qa.answer))
    ELSE <<>>

\* matchingBooking.customers?.[0]?.customQuestionAnswers, every pair kept
firstCustomerAnswers(matchingBooking) ==
    IF matchingBooking.customers.present /\ Len(matchingBooking.customers.list) > 0
          /\ matchingBooking.customers.list[1].customQuestionAnswers.present
    THEN matchingBooking.customers.list[1].customQuestionAnswers.list
    ELSE <<>>

\* the customQuestions array built by the two loops
RECURSIVE answersOfAll(_)
answersOfAll(customers) ==
    IF customers = <<>> THEN <<>>
    ELSE answersOfAll(SubSeq(customers, 1, Len(customers) - 1))
             \o answersOf(customers[Len(customers)])
customQuestions(matchingBooking) ==
    IF matchingBooking.customers.present THEN answersOfAll(matchingBooking.customers.list)
    ELSE <<>>

\* a || b || undefined of two strings: the empty string and undefined are falsy
orElse(a, b) ==
    IF a \notin {"", "undefined"} THEN a
    ELSE IF b \notin {"", "undefined"} THEN b ELSE "undefined"

\* a hook that builds the enriched event from the booking instead of spreading the event
enrichEventFromBooking(version, event, bookings, z) ==
    LET sorted == sortByStartDiff(potentialMatches(version, event, bookings, z))
    IN  IF Len(sorted) > 0
        THEN [event EXCEPT !.bookingCustomerName = sorted[1].booking.customerName,
                           !.location = sorted[1].booking.serviceLocation.displayName,
                           !.end = sorted[1].booking.endDateTime]
        ELSE event

\* the callback of events.map: the event, with the booking fields when one matches
\* (bookingCustomerName 0, "undefined" and the empty list: the event has no such field,
\* or has it undefined)
enrichEvent(version, event, bookings, z) ==
    LET sorted == sortByStartDiff(potentialMatches(version, event, bookings, z))
        matchingBooking == sorted[1].booking
    IN  IF Len(sorted) > 0
        THEN [event EXCEPT !.bookingCustomerName = matchingBooking.customerName,
                           !.bookingCustomerEmail = matchingBooking.customerEmailAddress,
                           !.bookingCustomerPhone = matchingBooking.customerPhone,
                           !.bookingCustomQuestions = customQuestions(matchingBooking),
                           !.bookingServiceNotes =
                               orElse(matchingBooking.serviceNotes, matchingBooking.customerNotes)]
        ELSE event

\* a hook that writes the booking fields on every event, undefined (-1) without a match
enrichEventsAlwaysSpread(version, events, bookings, z) ==
    [i \in 1..Len(events) |->
        LET sorted == sortByStartDiff(potentialMatches(version, events[i], bookings, z))
        IN  [events[i] EXCEPT !.bookingCustomerName =
                 IF Len(sorted) > 0 THEN sorted[1].booking.customerName ELSE -1]]

enrichEventsWithBookingData(version, events, bookings, z) ==
    IF Len(bookings) = 0 THEN events
    ELSE [i \in 1..Len(events) |-> enrichEvent(version, events[i], bookings, z)]

\* the TypeError of reading dateTime of undefined: b.startDateTime.dateTime in the log of
\* the booking locations, and parseBookingDate(booking.endDateTime) in the callback of
\* bookings.map, which runs for every event
enrichThrows(events, bookings) ==
    \E k \in 1..Len(bookings) :
        \/ ~bookings[k].startDateTime.present
        \/ Len(events) > 0 /\ ~bookings[k].endDateTime.present

\* the rooms of the directory: id and display name
Rooms ==
    { [id |-> <<"L", "a", "b", "@", "r">>, name |-> <<"L", "a", "b">>],
      [id |-> <<"L", "a", "b", "2", "@", "r">>, name |-> <<"L", "a", "b", " ", "2">>],
      [id |-> <<"Y", "a", "r", "d", "@", "r">>, name |-> <<"Y", "a", "r", "d">>] }

\* the serviceLocation of a booking made for a room: its name and its address as
\* locationUri; or only its address as locationEmailAddress
LocationOf(room) ==
    [present |-> TRUE, displayName |-> room.name, locationUri |-> toLowerCase(room.id),
     locationEmailAddress |-> <<>>]
EmailOnly(room) ==
    [present |-> TRUE, displayName |-> <<>>, locationUri |-> <<>>, locationEmailAddress |-> room.id]

\* a local wall time of day d as a UTC instant
At(d, h, m, halfMinutes) ==
    (d * 24 * 60 + h * 60 + m) * TicksPerMinute + halfMinutes - localOffset(LocalTz)

UtcTime(t) ==
    [present |-> TRUE, dateTime |-> [wall |-> t, utcMarked |-> FALSE], timeZone |-> "UTC"]

\* a startDateTime or endDateTime the record does not have
NoDate == [present |-> FALSE, dateTime |-> [wall |-> 0, utcMarked |-> FALSE], timeZone |-> "UTC"]

BookingStarts ==
    {At(1, 23, 59, 0), At(2, 9, 29, 1), At(2, 9, 45, 0), At(2, 9, 55, 0), At(2, 10, 0, 0),
     At(2, 10, 5, 0), At(2, 10, 5, 1), At(2, 10, 30, 1), At(2, 10, 45, 0)}
BookingMinutes == 30

CalendarEventOf(room, start, minutes) ==
    [roomId |-> room.id, location |-> room.name, start |-> UtcTime(start),
     end |-> UtcTime(start + minutes * TicksPerMinute), bookingCustomerName |-> 0,
     bookingCustomerEmail |-> "undefined", bookingCustomerPhone |-> "undefined",
     bookingCustomQuestions |-> <<>>, bookingServiceNotes |-> "undefined"]

\* the event lists: none, one event, or two events at the same time in two rooms
EventLists ==
    {<<>>}
    \cup {<<CalendarEventOf(r, t, 15)>> : r \in Rooms, t \in {At(2, 0, 1, 0), At(2, 10, 0, 0)}}
    \cup {<<CalendarEventOf(r, At(2, 10, 0, 0), 60)>> : r \in Rooms}
    \cup UNION {{<<CalendarEventOf(r1, At(2, 10, 0, 0), n), CalendarEventOf(r2, At(2, 10, 0, 0), n)>> :
                    r2 \in Rooms \ {r1}, n \in {15, 60}} : r1 \in Rooms}

BookingLocations ==
    {NoLocation} \cup {LocationOf(r) : r \in {x \in Rooms : x.name # <<"Y", "a", "r", "d">>}}
        \cup {EmailOnly(r) : r \in {x \in Rooms : x.name = <<"L", "a", "b">>}}

BookingOf(name, start, loc) ==
    [customerName |-> name, startDateTime |-> UtcTime(start),
     endDateTime |-> UtcTime(start + BookingMinutes * TicksPerMinute), serviceLocation |-> loc,
     customerEmailAddress |-> "undefined", customerPhone |-> "undefined",
     customers |-> NoCustomers, serviceNotes |-> "undefined", customerNotes |-> "undefined"]

\* the booking lists: none, one or two bookings, named by their place in the list
BookingLists ==
    {<<>>}
    \cup {<<BookingOf(1, t, l)>> : t \in BookingStarts, l \in BookingLocations}
    \cup UNION {{<<BookingOf(1, t1, l1), BookingOf(2, t2, l2)>> :
                    t2 \in BookingStarts, l2 \in BookingLocations} :
                 t1 \in BookingStarts, l1 \in BookingLocations}

\* enrichEventsWithBookingData(events, bookings) of one of the two hooks
enrichEventsCall(version) ==
    /\ recon.applied = "none"
    /\ recon' =
           IF enrichThrows(recon.events, recon.bookings)
           THEN [recon EXCEPT !.applied = version, !.threw = TRUE]
           ELSE [recon EXCEPT !.applied = version,
                              !.out = enrichEventsWithBookingData(version, recon.events,
                                                                  recon.bookings, tz)]
    /\ UNCHANGED <<now, tz, remote, viewMonth, feVars, beVars, today, listed, paging, hook>>

\* SpecReconcile: the two hooks applied to every list of events and bookings
InitReconcile ==
    /\ now = StartInstant
    /\ tz = LocalTz
    /\ viewMonth = StartMonth
    /\ remote = "up"
    /\ idb = EmptyDb
    /\ InitService
    /\ InitBackendIdle
    /\ today = StartDate
    /\ listed = NoList
    /\ InitNetIdle
    /\ recon \in [applied : {"none"}, events : EventLists, bookings : BookingLists, out : {<<>>},
                 threw : {FALSE}]

NextReconcile ==
    \/ enrichEventsCall("useCalendarEvents")
    \/ enrichEventsCall("storageService")

SpecReconcile == InitReconcile /\ [][NextReconcile]_vars

\* the answers of a booking form: none, white space only, text, text after a space
Answers == {<<>>, <<" ">>, <<"y">>, <<" ", "n">>}

\* the customQuestionAnswers of a customer: absent, or up to two pairs
QuestionAnswers ==
    {NoCustomers}
    \cup {[present |-> TRUE, list |-> <<>>]}
    \cup {[present |-> TRUE, list |-> <<[question |-> "q1", answer |-> a]>>] : a \in Answers}
    \cup {[present |-> TRUE, list |-> <<[question |-> "q1", answer |-> a],
                                        [question |-> "q2", answer |-> b]>>] :
              a \in Answers, b \in {<<" ">>, <<"y">>}}

\* the customers of a booking: absent, or up to two customers
CustomerLists ==
    {NoCustomers}
    \cup {[present |-> TRUE, list |-> <<>>]}
    \cup {[present |-> TRUE, list |-> <<[customQuestionAnswers |-> q]>>] : q \in QuestionAnswers}
    \cup {[present |-> TRUE, list |-> <<[customQuestionAnswers |-> q1],
                                        [customQuestionAnswers |-> q2]>>] :
              q1 \in {q \in QuestionAnswers : Len(q.list) # 1},
              q2 \in {q \in QuestionAnswers : Len(q.list) = 1}}

\* the bookings of the room Lab at 10:05, with every shape of the other fields
DetailedBookings ==
    LET lab == CHOOSE r \in Rooms : r.name = <<"L", "a", "b">>
        b == [BookingOf(1, At(2, 10, 5, 0), LocationOf(lab)) EXCEPT
                 !.customerEmailAddress = "a@b", !.customerPhone = "07"]
    IN  {[b EXCEPT !.customers = c, !.serviceNotes = sn, !.customerNotes = cn] :
            c \in CustomerLists, sn \in {"undefined", "", "sn"}, cn \in {"undefined", "", "cn"}}
        \cup {[b EXCEPT !.serviceLocation = NoLocation, !.customers = c] : c \in CustomerLists}
        \cup {[b EXCEPT !.startDateTime = NoDate], [b EXCEPT !.endDateTime = NoDate],
              [b EXCEPT !.startDateTime = NoDate, !.serviceLocation = NoLocation]}

\* SpecDetail: the two hooks applied to an event of the room Lab at 10:00, or to no event,
\* and to one or two bookings of every shape
InitDetail ==
    /\ now = StartInstant
    /\ tz = LocalTz
    /\ viewMonth = StartMonth
    /\ remote = "up"
    /\ idb = EmptyDb
    /\ InitService
    /\ InitBackendIdle
    /\ today = StartDate
    /\ listed = NoList
    /\ InitNetIdle
    /\ LET lab == CHOOSE r \in Rooms : r.name = <<"L", "a", "b">>
           well == BookingOf(2, At(2, 10, 0, 0), LocationOf(lab))
       IN  recon \in [applied : {"none"},
                      events : {<<>>, <<CalendarEventOf(lab, At(2, 10, 0, 0), 15)>>},
                      bookings : {<<b>> : b \in DetailedBookings}
                                   \cup {<<b, well>> : b \in DetailedBookings},
                      out : {<<>>}, threw : {FALSE}]

SpecDetail == InitDetail /\ [][NextReconcile]_vars

---------------------------------------------------------------------------
(* getBookingAppointments: the calendarView request and its @odata.nextLink pages *)

MaxPages == 3

\* what the fetch of a page does: a response with response.ok, a response without,
\* or a rejected promise (the network failed)
PageOutcomes == {"ok", "status", "reject"}

\* the pages of a calendarView: page n carries the record n, or no value, and every
\* page but the last carries an @odata.nextLink
PageLists ==
    UNION {[1..len -> [outcome : PageOutcomes, value : {<<>>}]] : len \in 1..MaxPages}

PagesOf(shape, filled) ==
    [n \in 1..Len(shape) |->
        [outcome |-> shape[n].outcome, value |-> IF n \in filled THEN <<n>> ELSE <<>>]]

\* the while (nextLink) loop from page n on: what the call returns, or that it rejects
RECURSIVE fetchPages(_, _, _)
fetchPages(pages, n, allAppointments) ==
    IF n > Len(pages) THEN [raised |-> FALSE, value |-> allAppointments]
    ELSE IF pages[n].outcome = "reject" THEN [raised |-> TRUE, value |-> <<>>]
    ELSE IF pages[n].outcome = "status" THEN [raised |-> FALSE, value |-> allAppointments]
    ELSE fetchPages(pages, n + 1, allAppointments \o pages[n].value)

\* getBookingAppointments(accessToken, bookingBusinessId, startDateTime, endDateTime) of
\* the frontend or of the backend
getBookingAppointmentsCall(side) ==
    /\ paging.by = "none"
    /\ LET r == fetchPages(paging.pages, 1, <<>>)
       IN  paging' = [paging EXCEPT !.by = side, !.result = r.value, !.raised = r.raised]
    /\ UNCHANGED <<now, tz, remote, viewMonth, feVars, beVars, today, listed, recon, hook>>

InitPages ==
    /\ now = StartInstant
    /\ tz = LocalTz
    /\ viewMonth = StartMonth
    /\ remote = "up"
    /\ idb = EmptyDb
    /\ InitService
    /\ InitBackendIdle
    /\ today = StartDate
    /\ listed = NoList
    /\ recon = NoRecon
    /\ hook = NoHook
    /\ \E shape \in PageLists : \E filled \in SUBSET (1..Len(shape)) :
           paging = [NoPaging EXCEPT !.pages = PagesOf(shape, filled)]

NextPages ==
    \/ getBookingAppointmentsCall("frontend")
    \/ getBookingAppointmentsCall("backend")

SpecPages == InitPages /\ [][NextPages]_vars

---------------------------------------------------------------------------
(* The hook useCalendarEvents: fetchEvents, the effect, setDateRange and refresh *)

\* the fetchEvents invocations of a behaviour: of SpecHook, and of SpecRange, where
\* the range changes while a fetch is in flight
MaxFetches == 1
MaxRangeFetches == 2

\* the date ranges the view asks for: range g shows the day 1 + g
Ranges == {1, 2}

\* the rooms array of the context, all of them selected
activeRooms ==
    LET room(name) == CHOOSE r \in Rooms : r.name = name
    IN  <<room(<<"L", "a", "b">>), room(<<"L", "a", "b", " ", "2">>), room(<<"Y", "a", "r", "d">>)>>

\* what the calendarView request of a room does: it answers, it rejects, or it
\* answers 429
RoomOutcomes == {"ok", "thrown", "429"}

\* getRoomCalendarEvents: the events of the room in the range (one, at 10:00), or
\* the error thrown when the request rejects or !response.ok
getRoomCalendarEvents(room, g, outcome) ==
    IF outcome = "ok"
    THEN [rejected |-> FALSE, value |-> <<CalendarEventOf(room, At(1 + g, 10, 0, 0), 15)>>]
    ELSE [rejected |-> TRUE, value |-> <<>>]

\* a calendarPromise without the try and catch around getRoomCalendarEvents
calendarPromiseNoCatch(room, g, outcome) == getRoomCalendarEvents(room, g, outcome)

\* the async callback of activeRooms.map: the events of the room, or [] when
\* getRoomCalendarEvents threw
calendarPromise(room, g, outcome) ==
    LET roomEvents == getRoomCalendarEvents(room, g, outcome)
    IN  IF roomEvents.rejected THEN [rejected |-> FALSE, value |-> <<>>] ELSE roomEvents

\* results.flat()
RECURSIVE flat(_)
flat(results) ==
    IF results = <<>> THEN <<>> ELSE Head(results) \o flat(Tail(results))

\* the bookings fetchBookingsFromAPI or the local database return for range g
HookBookings(g) == {<<>>, <<BookingOf(1, At(1 + g, 10, 0, 0), LocationOf(activeRooms[1]))>>}

\* a fetchEvents(start, end) invocation up to its first await, and one that returned
NewFetch(g) ==
    [range |-> g, phase |-> "token", settled |-> {},
     results |-> [n \in 1..Len(activeRooms) |-> [rejected |-> FALSE, value |-> <<>>]],
     bookings |-> <<>>]
Returned(f) == [NewFetch(f.range) EXCEPT !.phase = "done"]

\* fetchEvents(start, end) up to 'await getAccessToken()': setLoading(true), setError(null)
fetchEvents(g) ==
    [hook EXCEPT !.loading = TRUE, !.error = FALSE, !.fetches = Append(@, NewFetch(g))]

\* setDateRange(start, end), and the effect that runs for the new currentRange
setDateRange(g, most) ==
    /\ Len(hook.fetches) < most
    /\ hook' = [fetchEvents(g) EXCEPT !.currentRange = g]
    /\ UNCHANGED <<now, tz, remote, viewMonth, feVars, beVars, today, listed, recon, paging>>

\* refresh(), and the effect at mount
refresh(most) ==
    /\ Len(hook.fetches) < most
    /\ hook' = fetchEvents(hook.currentRange)
    /\ UNCHANGED <<now, tz, remote, viewMonth, feVars, beVars, today, listed, recon, paging>>

\* getAccessToken() resolves: without a token fetchEvents returns; with one it issues
\* the calendar requests of the rooms and the bookings request
fetchEventsToken(i, token) ==
    /\ i \in 1..Len(hook.fetches)
    /\ hook.fetches[i].phase = "token"
    /\ hook' = IF token THEN [hook EXCEPT !.fetches[i].phase = "bookings"]
               ELSE [hook EXCEPT !.loading = FALSE, !.fetches[i] = Returned(@)]
    /\ UNCHANGED <<now, tz, remote, viewMonth, feVars, beVars, today, listed, recon, paging>>

\* the calendar request of room n of invocation i settles
roomResponse(i, n, outcome) ==
    /\ i \in 1..Len(hook.fetches)
    /\ hook.fetches[i].phase \in {"bookings", "join"}
    /\ n \notin hook.fetches[i].settled
    /\ hook' = [hook EXCEPT !.fetches[i].settled = @ \cup {n},
                            !.fetches[i].results[n] =
                                calendarPromise(activeRooms[n], hook.fetches[i].range, outcome)]
    /\ UNCHANGED <<now, tz, remote, viewMonth, feVars, beVars, today, listed, recon, paging>>

\* the bookings of the range arrive, from the API or from the local database
fetchEventsBookings(i, bookingAppointments) ==
    /\ i \in 1..Len(hook.fetches)
    /\ hook.fetches[i].phase = "bookings"
    /\ bookingAppointments \in HookBookings(hook.fetches[i].range)
    /\ hook' = [hook EXCEPT !.fetches[i].phase = "join",
                            !.fetches[i].bookings = bookingAppointments]
    /\ UNCHANGED <<now, tz, remote, viewMonth, feVars, beVars, today, listed, recon, paging>>

\* await Promise.all(calendarPromises) settles: setEvents(enrichedEvents), or setError
\* when a promise rejected or the enrichment threw; finally setLoading(false)
fetchEventsJoin(i) ==
    /\ i \in 1..Len(hook.fetches)
    /\ hook.fetches[i].phase = "join"
    /\ LET f == hook.fetches[i]
           rejected == \E n \in 1..Len(f.results) : f.results[n].rejected
           allEvents == flat([n \in 1..Len(f.results) |-> f.results[n].value])
       IN  /\ rejected \/ f.settled = 1..Len(f.results)
           /\ hook' =
                  IF rejected \/ enrichThrows(allEvents, f.bookings)
                  THEN [hook EXCEPT !.error = TRUE, !.loading = FALSE, !.fetches[i] = Returned(@)]
                  ELSE [hook EXCEPT !.events = enrichEventsWithBookingData(
                                                  "useCalendarEvents", allEvents, f.bookings, tz),
                                    !.loading = FALSE, !.fetches[i] = Returned(@)]
    /\ UNCHANGED <<now, tz, remote, viewMonth, feVars, beVars, today, listed, recon, paging>>

InitHook ==
    /\ now = StartInstant
    /\ tz = LocalTz
    /\ viewMonth = StartMonth
    /\ remote = "up"
    /\ idb = EmptyDb
    /\ InitService
    /\ InitBackendIdle
    /\ InitUiIdle

NextHook ==
    \/ \E g \in Ranges : setDateRange(g, MaxFetches)
    \/ refresh(MaxFetches)
    \/ \E i \in 1..MaxFetches, token \in BOOLEAN : fetchEventsToken(i, token)
    \/ \E i \in 1..MaxFetches, n \in 1..Len(activeRooms), outcome \in RoomOutcomes :
           roomResponse(i, n, outcome)
    \/ \E i \in 1..MaxFetches : \E g \in Ranges : \E b \in HookBookings(g) :
           fetchEventsBookings(i, b)
    \/ \E i \in 1..MaxFetches : fetchEventsJoin(i)

SpecHook == InitHook /\ [][NextHook]_vars

\* SpecRange: the hook with fetches that overlap
NextRange ==
    \/ \E g \in Ranges : setDateRange(g, MaxRangeFetches)
    \/ refresh(MaxRangeFetches)
    \/ \E i \in 1..MaxRangeFetches, token \in BOOLEAN : fetchEventsToken(i, token)
    \/ \E i \in 1..MaxRangeFetches, n \in 1..Len(activeRooms), outcome \in RoomOutcomes :
           roomResponse(i, n, outcome)
    \/ \E i \in 1..MaxRangeFetches : \E g \in Ranges : \E b \in HookBookings(g) :
           fetchEventsBookings(i, b)
    \/ \E i \in 1..MaxRangeFetches : fetchEventsJoin(i)

SpecRange == InitHook /\ [][NextRange]_vars

---------------------------------------------------------------------------
(* Properties of syncAllNeededMonths, checked under Spec *)

\* a syncMonth invocation of pass p has fetched and is storing
InSyncMonth(p) == pass[p].phase \in {"store", "commit"}

\* the bucket loop of pass p has started and has not finished
PassRunning(p) == pass[p].phase \in {"list", "fetch", "store", "commit"}

\* C1: at most one pass over the stale buckets is in progress at a time: no two
\* syncMonth invocations overlap, and a caller that found a pass in flight has
\* returned only after every bucket loop of the call it waited for has finished
C1_OnePassAtATime ==
    /\ Cardinality({p \in PassIds : pass[p].kind = "syncAll" /\ InSyncMonth(p)}) <= 1
    /\ \A c \in Callers :
         (call[c].status = "done" /\ call[c].awaiting # NoPass)
            => \A k \in {1, 2} : ~PassRunning(<<call[c].awaiting[1], k>>)

\* the onProgress arguments one pass over the list months delivers
ProgressOf(months) ==
    SetToBag({[current |-> i, total |-> Len(months), monthKey |-> months[i]] : i \in 1..Len(months)})

\* C7: within one syncAllNeededMonths call the stale buckets are synced one after
\* the other, never two at once, and onProgress has been invoked exactly once per
\* stale bucket, with current = i, total = the number of stale buckets and its key
C7_SequentialWithProgress ==
    \A c \in Callers :
      /\ ~(InSyncMonth(<<c, 1>>) /\ InSyncMonth(<<c, 2>>))
      /\ \A e \in BagToSet(progress[c]) : CopiesIn(e, progress[c]) = 1
      /\ (call[c].op = "syncAll" /\ call[c].status = "done" /\ call[c].awaiting = NoPass)
            => progress[c] = ProgressOf(pass[<<c, 2>>].months)

---------------------------------------------------------------------------
(* Properties of forceFullSync, checked under SpecForce *)

FullSyncOps == {"syncAll", "force"}

\* C2: full syncs exclude each other: at most one syncAllNeededMonths or
\* forceFullSync operation is executing at any time; a later caller has started
\* no clear and no bucket loop of its own while another operation is executing
C2_FullSyncMutualExclusion ==
    Cardinality({c \in Callers : call[c].op \in FullSyncOps /\ call[c].status = "running"}) <= 1

\* C4: when every remote request fails, no step changes any bucket's records or
\* metadata, and an attempt that has finished reports failure
C4_TotalFailureLeavesStore ==
    [][remote = "down" =>
         /\ idb' = idb
         /\ \A c \in Callers : call'[c].status = "done" => ~call'[c].result.success]_vars

\* the 19 buckets of the window around the current month, in chronological order
FullWindow == [k \in 1..19 |-> getMonthKey(now, tz) - 6 + (k - 1)]

\* C10: a forceFullSync that ran alone and counted 19 successful bucket syncs has
\* called syncMonth once for each bucket of the 19 month window, and exactly
\* those 19 buckets have metadata afterwards
C10_ForceFullSyncWindow ==
    \A c \in Callers :
      (/\ call[c].op = "force" /\ call[c].status = "done"
       /\ \A d \in Callers \ {c} : call[d].status = "idle"
       /\ call[c].result.monthsSynced = 19)
         => /\ progress[c] = ProgressOf(FullWindow)
            /\ {m.monthKey : m \in idb.meta} = {FullWindow[k] : k \in 1..19}

---------------------------------------------------------------------------
(* Properties of syncMonth and monthNeedsSync, checked under SpecMonth *)

\* the age threshold of a bucket in ticks: current, strictly future, strictly past
\* calendar month
AgeThreshold(monthKey, t, z) ==
    IF monthKey = getMonthKey(t, z) THEN 1 * TicksPerHour
    ELSE IF monthKey > getMonthKey(t, z) THEN 6 * TicksPerHour
    ELSE 24 * TicksPerHour

\* stale: no metadata, or older than the threshold
Stale(db, monthKey, t, z) ==
    \/ MetaOf(db, monthKey) = {}
    \/ \E m \in MetaOf(db, monthKey) : t - m.lastSync > AgeThreshold(monthKey, t, z)

\* C5: monthNeedsSync(b) is true exactly when b has no metadata or its age is
\* strictly greater than 1 hour (current month), 6 hours (future month) or
\* 24 hours (past month)
C5_NeedsSyncIsAgeOverThreshold ==
    monthNeedsSync(idb, viewMonth, now, tz) <=> Stale(idb, viewMonth, now, tz)

\* a syncMonth of the month on view returns in this step, reporting success
SyncMonthSucceeds ==
    /\ call[1].status = "running"
    /\ call'[1].status = "done"
    /\ pass'[<<1, 1>>].monthsSynced = 1

\* C6: a bucket never synced needs sync; it does not need sync immediately after a
\* syncMonth that reports success; it needs sync again once its age has passed
\* its threshold
C6_StalenessLifecycle ==
    [][/\ (MetaOf(idb, viewMonth) = {} => monthNeedsSync(idb, viewMonth, now, tz))
       /\ (SyncMonthSucceeds => ~monthNeedsSync(idb', viewMonth, now', tz'))
       /\ ((\E m \in MetaOf(idb, viewMonth) : now - m.lastSync > AgeThreshold(viewMonth, now, tz))
              => monthNeedsSync(idb, viewMonth, now, tz))]_vars

\* C8: when the sources answer and syncMonth(b) returns success, bucket b holds
\* exactly the fetched bookings that start in b, recordCount is their number,
\* lastSyncedAt is the time of this sync and the returned count is recordCount
C8_BucketIsFilteredFetch ==
    [][(SyncMonthSucceeds /\ remote = "up") =>
         \E t \in StartInstant..now' :
            /\ BucketView(idb', viewMonth)
                  = NewBucket(viewMonth, SyncMonthFetch(remote, viewMonth, tz).bookings, t)
            /\ \A m \in MetaOf(idb', viewMonth) :
                 /\ m.bookingCount = Cardinality(getBookingsForMonth(idb', viewMonth))
                 /\ call'[1].result.totalCount = m.bookingCount]_vars

---------------------------------------------------------------------------
(* Properties of the stores, checked under SpecStore and SpecPost *)

\* C3: a read of a bucket issued while a replacement of that bucket is in
\* progress returns the complete old bucket or the complete new bucket, records
\* and metadata together
C3_ReaderSeesOldOrNew ==
    (lastRead.valid /\ lastRead.during) => lastRead.result \in {lastRead.old, lastRead.intended}

\* C9: every stored booking record is in one bucket only, and the key of that
\* bucket is the calendar month of the record's start
C9_RecordInBucketOfItsStartMonth ==
    /\ \A r \in idb.bookings : r.monthKey = r.start \div MonthLen
    /\ \A r \in sqlite.bookings : r.month_key = r.start \div MonthLen
    /\ \A r1 \in idb.bookings : \A r2 \in idb.bookings : r1.dbKey = r2.dbKey => r1 = r2
    /\ \A r1 \in sqlite.bookings : \A r2 \in sqlite.bookings : r1.id = r2.id => r1 = r2

---------------------------------------------------------------------------
(* Properties of partial failures, checked under SpecFault, SpecBackend and SpecPost *)

\* pass p is inside the loop turn of the bucket whose fetch fails
OnFaultMonth(p) ==
    /\ pass[p].phase \in {"fetch", "store", "commit"}
    /\ pass[p].months[pass[p].i] = FaultMonth

\* the months for which the caller has received onProgress
ProgressMonths(c) == {e.monthKey : e \in BagToSet(progress[c])}

\* one step taken while the fetches for FaultMonth fail
FailedBucketStep ==
    /\ \A p \in PassIds : OnFaultMonth(p) => pass'[p].monthsSynced = pass[p].monthsSynced
    /\ BucketView(idb', FaultMonth) = BucketView(idb, FaultMonth)
    /\ call'[1].status = "done" => ProgressMonths(1)' = {FaultMonth, FaultMonth + 1}

\* C11: when the remote fetch for one stale bucket fails, that bucket is not
\* counted in monthsSynced, its records and metadata stay as they were, and the
\* call still returns after going through every stale bucket
C11_FailedBucketNotSynced ==
    [][(remote \in {"monthDown", "apptDown"}) => FailedBucketStep]_vars

\* the ids of the remote appointments of month m held by the sources whose
\* calendarView request is answered
RespondingIds(mode, m) ==
    {RemoteAppointments[k].id :
        k \in {j \in 1..Len(RemoteAppointments) :
                 /\ BookingMonth(RemoteAppointments[j]) = m
                 /\ ~SourceFails(mode, RemoteAppointments[j].biz, m)}}

\* C12: with several booking sources of which one fails, a month that syncMonth
\* has stored holds the bookings of every source that responded, the sources
\* after the failed one included
C12_RespondingSourcesStored ==
    remote = "biz1Down" =>
        \A e \in sqlite.meta :
            {r.id : r \in {x \in sqlite.bookings : x.month_key = e.monthKey}}
                = RespondingIds(remote, e.monthKey)

\* the month of the loop turn the triggered sync is about to take
TurnMonth == bsync["trigger"].months[bsync["trigger"].i]

\* what the turn fetches for its month: the first business's appointments of the month
TurnAppointments ==
    SelectSeq(getBookingAppointments(1, backendMonthRange(TurnMonth, tz).start,
                                     backendMonthRange(TurnMonth, tz).end),
              LAMBDA a : BookingMonth(a) = TurnMonth)

\* an INSERT of the turn is rejected: the id is already stored under another month
InsertRejected ==
    /\ bsync["trigger"].phase = "months"
    /\ remote = "up"
    /\ \E k \in 1..Len(TurnAppointments) :
          \E r \in sqlite.bookings : r.id = TurnAppointments[k].id /\ r.month_key # TurnMonth

\* the sqlite rows and metadata of one month
SqlBucket(db, m) ==
    [bookings |-> {r \in db.bookings : r.month_key = m}, meta |-> MetaOf(db, m)]

---------------------------------------------------------------------------
(* Properties of the month window, checked under SpecList *)

\* the months from monthsBehind before the month of dt through monthsAhead after it
Window(dt) ==
    [k \in 1..(monthsBehind + monthsAhead + 1) |-> dateMonthKey(dt) - monthsBehind + (k - 1)]

IsChronological(seq) == \A i \in 1..Len(seq) : \A j \in 1..Len(seq) : i < j => seq[i] < seq[j]

\* C14: the window checked is the 19 distinct months from 6 before the current
\* month through 12 after it on every day of the month, and the months returned
\* are exactly those of the window for which monthNeedsSync holds, each once and
\* in chronological order
C14_ListStaleMonths ==
    listed.by # "none" =>
        /\ listed.checked = Window(today)
        /\ listed.checked = MonthsToCheck(now, tz)
        /\ Cardinality({listed.checked[k] : k \in 1..Len(listed.checked)}) = 19
        /\ IsChronological(listed.needing)
        /\ listed.by = "getMonthsNeedingSync" =>
              {listed.needing[k] : k \in 1..Len(listed.needing)}
                  = {m \in {Window(today)[k] : k \in 1..19} : monthNeedsSync(idb, m, now, tz)}

\* listed on 31 January, with part of the window stale
C14_Witness ==
    /\ listed.by = "getMonthsNeedingSync"
    /\ today.m = 1 /\ today.d = 31
    /\ listed.needing = <<dateMonthKey(today), dateMonthKey(today) + 1>>

---------------------------------------------------------------------------
(* Properties of the reconciliation, checked under SpecReconcile *)

\* the absolute instant of a recorded time whose declared zone is UTC
Instant(dateObj) == dateObj.dateTime.wall

LocalDay(t) == (t + localOffset(tz)) \div DayTicks

\* |event.start - booking.start|, in ticks and in whole minutes
StartDiffTicks(e, b) == Abs(Instant(e.start) - Instant(b.startDateTime))
StartDiffMinutes(e, b) == StartDiffTicks(e, b) \div TicksPerMinute

Overlaps(e, b) ==
    Instant(e.start) < Instant(b.endDateTime) /\ Instant(e.end) > Instant(b.startDateTime)

\* booking k is a candidate of event e: the same day and the resource pre-filter
Candidate(e, k) ==
    /\ LocalDay(Instant(e.start)) = LocalDay(Instant(recon.bookings[k].startDateTime))
    /\ roomMatches(recon.applied, recon.bookings[k], e)

\* the accepted pool of event e, with the start difference taken in whole minutes
Pool(e) ==
    {k \in 1..Len(recon.bookings) :
        /\ Candidate(e, k)
        /\ StartDiffMinutes(e, recon.bookings[k]) <= 30 \/ Overlaps(e, recon.bookings[k])}

\* the accepted pool of event e, with the start difference taken exactly
ExactPool(e) ==
    {k \in 1..Len(recon.bookings) :
        /\ Candidate(e, k)
        /\ StartDiffTicks(e, recon.bookings[k]) <= 30 * TicksPerMinute \/ Overlaps(e, recon.bookings[k])}

\* the first booking of the pool among those of least difference
Best(pool, Diff(_)) ==
    CHOOSE k \in pool : \A j \in pool : Diff(k) < Diff(j) \/ (Diff(k) = Diff(j) /\ k <= j)

Reconciled == recon.applied # "none"
Attached(i) == recon.out[i].bookingCustomerName

C17_OtherDayNeverAttached ==
    Reconciled =>
        \A i \in 1..Len(recon.events) :
            Attached(i) # 0 =>
                LocalDay(Instant(recon.bookings[Attached(i)].startDateTime))
                    = LocalDay(Instant(recon.events[i].start))

\* an event at 00:01 and a booking of its room from 23:59 the day before, which
\* overlaps it: the event is left as it was
C17_Witness ==
    /\ Reconciled
    /\ Len(recon.events) = 1 /\ Len(recon.bookings) = 1
    /\ Instant(recon.events[1].start) = At(2, 0, 1, 0)
    /\ Instant(recon.bookings[1].startDateTime) = At(1, 23, 59, 0)
    /\ roomMatches(recon.applied, recon.bookings[1], recon.events[1])
    /\ Overlaps(recon.events[1], recon.bookings[1])
    /\ recon.out = recon.events

\* the room of the directory an event belongs to
RoomOf(e) == CHOOSE r \in Rooms : r.id = e.roomId

\* C18: of two events at the same time in two rooms, a booking at that time made
\* for one of the rooms enriches the event of that room and leaves the other
\* event as it was, for every pair of rooms of the directory
C18_ResourceIsolation ==
    (/\ Reconciled
     /\ Len(recon.events) = 2 /\ Len(recon.bookings) = 1
     /\ Instant(recon.bookings[1].startDateTime) = Instant(recon.events[1].start))
    => \A i \in {1, 2} :
          recon.bookings[1].serviceLocation = LocationOf(RoomOf(recon.events[i]))
              => Attached(i) = 1 /\ Attached(3 - i) = 0

\* the six rules of the resource pre-filter
RuleUri(b, e) ==
    /\ b.serviceLocation.locationUri # <<>>
    /\ toLowerCase(b.serviceLocation.locationUri) = toLowerCase(e.roomId)
RuleContactAddress(b, e) ==
    /\ b.serviceLocation.locationEmailAddress # <<>>
    /\ toLowerCase(b.serviceLocation.locationEmailAddress) = toLowerCase(e.roomId)
Contain(x, y) == x # <<>> /\ y # <<>> /\ (includes(x, y) \/ includes(y, x))
RuleNamesEqual(b, e) ==
    /\ normalizeRoomName(b.serviceLocation.displayName) # <<>>
    /\ normalizeRoomName(b.serviceLocation.displayName) = normalizeRoomName(e.location)
RuleNamesContain(b, e) ==
    Contain(normalizeRoomName(b.serviceLocation.displayName), normalizeRoomName(e.location))
RuleLocalPart(b, e) ==
    Contain(normalizeRoomName(b.serviceLocation.displayName), normalizeRoomName(localPart(e.roomId)))
RuleWords(b, e) ==
    LET words == splitWords(toLowerCase(b.serviceLocation.displayName), {" "}, <<>>)
        others == splitWords(toLowerCase(e.location), {" "}, <<>>)
                    \o splitWords(toLowerCase(localPart(e.roomId)), {".", "-", "_"}, <<>>)
    IN  /\ Len(words) > 0
        /\ \A k \in 1..Len(words) : \E j \in 1..Len(others) : Contain(words[k], others[j])

\* C19: a booking is judged equivalent to the event's room exactly when it has a
\* location reference and one of the six rules holds
C19_SixRulesExactly ==
    Reconciled =>
        \A i \in 1..Len(recon.events) : \A k \in 1..Len(recon.bookings) :
            LET e == recon.events[i]
                b == recon.bookings[k]
            IN  roomMatches(recon.applied, b, e)
                    <=> /\ b.serviceLocation.present
                        /\ \/ RuleUri(b, e) \/ RuleContactAddress(b, e) \/ RuleNamesEqual(b, e)
                           \/ RuleNamesContain(b, e) \/ RuleLocalPart(b, e) \/ RuleWords(b, e)

\* C20: with no bookings the events come back unchanged: the same events in the
\* same order, none with a booking field
C20_NoBookingsUnchanged ==
    (Reconciled /\ recon.bookings = <<>>) => recon.out = recon.events

\* two events reconciled with an empty booking list
C20_Witness ==
    /\ Reconciled
    /\ recon.bookings = <<>>
    /\ Len(recon.events) = 2
    /\ Len(recon.out) = 2

---------------------------------------------------------------------------
(* Properties of the result of enrichEventsWithBookingData, checked under
   SpecReconcile and SpecDetail *)

\* the call of enrichEventsWithBookingData: recon.applied leaves "none"
EnrichStep == recon.applied = "none" /\ recon'.applied # "none"

\* the event without the fields the hook adds
WithoutBooking(e) ==
    [e EXCEPT !.bookingCustomerName = 0, !.bookingCustomerEmail = "undefined",
              !.bookingCustomerPhone = "undefined", !.bookingCustomQuestions = <<>>,
              !.bookingServiceNotes = "undefined"]

\* C21: the hook returns one output event per input event, in the order of the
\* input; an event with no accepted candidate is returned as it was, an enriched
\* event keeps every calendar field of the input event, and the call changes
\* neither the list of events nor the list of bookings it was given.
C21_OneOutputPerEvent ==
    [][(EnrichStep /\ ~recon'.threw) =>
          /\ recon'.events = recon.events
          /\ recon'.bookings = recon.bookings
          /\ Len(recon'.out) = Len(recon.events)
          /\ \A i \in 1..Len(recon.events) :
                 /\ WithoutBooking(recon'.out[i]) = recon.events[i]
                 /\ potentialMatches(recon'.applied, recon.events[i], recon.bookings, tz) = <<>>
                        => recon'.out[i] = recon.events[i]]_vars

\* two events were given, the first was enriched and the second was not
C21_Witness ==
    /\ Reconciled
    /\ Len(recon.events) = 2 /\ Len(recon.out) = 2
    /\ recon.out[1].bookingCustomerName # 0
    /\ recon.out[1].location = recon.events[1].location
    /\ recon.out[2] = recon.events[2]
    /\ recon.events[1] # recon.events[2]
\* C22: the hook is total: for every list of events and every list of bookings,
\* also with a booking that has no location, no customers, no notes or no start
\* or end, it returns a result and never raises.
C22_NeverRaises == Reconciled => ~recon.threw

\* the booking attached to output event i
AttachedBooking(i) == recon.bookings[Attached(i)]

\* the places <<customer, question>> of the answers of booking b that are not
\* empty and not only white space, and the places before place p in customer
\* order then question order
AnswerList(b, c) ==
    IF b.customers.present /\ b.customers.list[c].customQuestionAnswers.present
    THEN b.customers.list[c].customQuestionAnswers.list
    ELSE <<>>
AnswerPlaces(b) ==
    UNION {{<<c, q>> : q \in {n \in 1..Len(AnswerList(b, c)) :
                                 {AnswerList(b, c)[n].answer[j] :
                                     j \in 1..Len(AnswerList(b, c)[n].answer)} \ {" "} # {}}} :
           c \in 1..(IF b.customers.present THEN Len(b.customers.list) ELSE 0)}
PlacesBefore(b, p) ==
    {r \in AnswerPlaces(b) : r[1] < p[1] \/ (r[1] = p[1] /\ r[2] < p[2])}

\* C23: on a match the enrichment is the projection of the selected booking: the
\* answers are the {question, answer} pairs of every customer whose answer is not
\* empty and not only white space, in customer order then question order; name,
\* email and phone are the booking's; the service notes are the booking's service
\* notes when it has them and otherwise its customer notes.
C23_Projection ==
    (Reconciled /\ ~recon.threw) =>
        \A i \in 1..Len(recon.out) :
            Attached(i) # 0 =>
                LET b == AttachedBooking(i)
                    o == recon.out[i]
                IN  /\ Len(o.bookingCustomQuestions) = Cardinality(AnswerPlaces(b))
                    /\ \A p \in AnswerPlaces(b) :
                           o.bookingCustomQuestions[Cardinality(PlacesBefore(b, p)) + 1]
                               = AnswerList(b, p[1])[p[2]]
                    /\ o.bookingCustomerEmail = b.customerEmailAddress
                    /\ o.bookingCustomerPhone = b.customerPhone
                    /\ o.bookingServiceNotes =
                           IF b.serviceNotes \notin {"", "undefined"} THEN b.serviceNotes
                           ELSE IF b.customerNotes \notin {"", "undefined"} THEN b.customerNotes
                           ELSE "undefined"

\* the attached booking has two customers and three answers, one of them white
\* space, and no service notes but customer notes
C23_Witness ==
    /\ Reconciled /\ ~recon.threw /\ Len(recon.out) = 1
    /\ Attached(1) = 1
    /\ Len(recon.bookings[1].customers.list) = 2
    /\ Len(AnswerList(recon.bookings[1], 1)) = 2 /\ Len(AnswerList(recon.bookings[1], 2)) = 1
    /\ Cardinality(AnswerPlaces(recon.bookings[1])) = 2
    /\ Len(recon.out[1].bookingCustomQuestions) = 2
    /\ recon.bookings[1].serviceNotes = "" /\ recon.out[1].bookingServiceNotes = "cn"
---------------------------------------------------------------------------
(* Properties of getBookingAppointments, checked under SpecPages *)

\* the pages before the first page whose request failed
PagesReached ==
    LET failed == {n \in 1..Len(paging.pages) : paging.pages[n].outcome # "ok"}
    IN  {n \in 1..Len(paging.pages) : \A m \in failed : n < m}

\* C24: the call returns the records of every page reached by following the
\* continuation links, in page order; when the request of a page fails it returns
\* the records of the pages before it, and it does not raise.
C24_PagesInOrderOrPartial ==
    paging.by # "none" =>
        /\ ~paging.raised
        /\ paging.result = SelectSeq([n \in 1..Len(paging.pages) |-> n],
                                     LAMBDA n : n \in PagesReached /\ paging.pages[n].value # <<>>)
---------------------------------------------------------------------------
(* Properties of fetchEvents, checked under SpecHook and SpecRange *)

\* invocation i of fetchEvents returns from its join of the calendar promises
JoinStep(i) == hook.fetches[i].phase = "join" /\ hook'.fetches[i].phase = "done"

\* the rooms of invocation i whose calendar request failed, and those that answered
FailedRooms(i) == {n \in 1..Len(activeRooms) : hook.fetches[i].results[n].value = <<>>}

\* C25: when the calendar requests of the selected rooms run in parallel and the
\* request of one room fails, by a thrown error or a 429 answer, the joined result
\* holds the events of every other room, in the order of the rooms, and none of the
\* failed room, whatever the order in which the requests settle, and the fetch does
\* not end in the error state.
C25_FailedRoomIsolated ==
    [][\A i \in 1..Len(hook.fetches) :
          (JoinStep(i) /\ FailedRooms(i) # {}) =>
              LET answered == SelectSeq([n \in 1..Len(activeRooms) |-> n],
                                        LAMBDA n : n \notin FailedRooms(i))
              IN  /\ ~hook'.error
                  /\ Len(hook'.events) = Len(answered)
                  /\ \A k \in 1..Len(answered) :
                         /\ hook'.events[k].roomId = activeRooms[answered[k]].id
                         /\ hook'.events[k].start
                                = UtcTime(At(1 + hook.fetches[i].range, 10, 0, 0))]_vars

\* a fetch returned with the events of two of the three rooms and without an error
C25_Witness ==
    /\ \E i \in 1..Len(hook.fetches) : hook.fetches[i].phase = "done"
    /\ Len(hook.events) = 2
    /\ hook.events[1].roomId = activeRooms[1].id
    /\ hook.events[2].roomId = activeRooms[3].id
    /\ ~hook.error /\ ~hook.loading

\* C30: when the range is changed while an earlier fetch is in flight, the events
\* shown once every fetch has completed are those of the range requested last, and
\* loading is false only when no fetch is in flight.
C30_LatestRangeShown ==
    LET inFlight == {i \in 1..Len(hook.fetches) : hook.fetches[i].phase # "done"}
    IN  /\ inFlight = {} =>
               \A k \in 1..Len(hook.events) :
                   hook.events[k].start = UtcTime(At(1 + hook.currentRange, 10, 0, 0))
        /\ ~hook.loading => inFlight = {}
---------------------------------------------------------------------------
(* Properties of a failed bucket, checked under SpecFault *)

\* C26: a bucket whose remote fetch failed stays stale: its lastSync is not
\* advanced and monthNeedsSync remains true, so that the next pass fetches it
\* again; a failed fetch never marks the bucket as freshly synced.
C26_FailedBucketStaysStale ==
    (remote \in {"monthDown", "apptDown"}) =>
        /\ monthNeedsSync(idb, FaultMonth, now, tz)
        /\ \A m \in idb.meta : m.monthKey = FaultMonth => m.lastSync < StartInstant
---------------------------------------------------------------------------
(* Properties of the buckets of the stores, checked under SpecStore and SpecPost *)

\* C27: in every state of the store, for every bucket that has metadata, the
\* recorded count is the number of records stored under the bucket's key.
C27_CountIsNumberOfRecords ==
    /\ \A m \in idb.meta : m.bookingCount = Cardinality(getBookingsForMonth(idb, m.monthKey))
    /\ \A m \in sqlite.meta :
           m.bookingCount = Cardinality({r \in sqlite.bookings : r.month_key = m.monthKey})
\* C28: syncMonth of a bucket changes that bucket only: the records and the
\* metadata of every other bucket are after the call what they were before it,
\* whether it succeeds or fails, also when the id of a fetched booking is stored
\* under another bucket.
C28_OtherBucketsUntouched ==
    [][\A m \in (StartMonth - 1)..(StartMonth + 1) :
          m # viewMonth => BucketView(idb', m) = BucketView(idb, m)]_vars
---------------------------------------------------------------------------
(* Properties of the guard of syncAllNeededMonths, checked under SpecGuard *)

\* the call of caller c that set isSyncing ends, by returning or by throwing
OwnerEnds(c) == call[c].status = "running" /\ call'[c].status \in {"done", "threw"}

\* C29: the guard of syncAllNeededMonths is always released: when a call that set
\* isSyncing returns or throws, also when the listing of the stale months or a
\* store rejects, isSyncing is false and syncPromise is null afterwards, so that a
\* later call starts a new pass; and every caller that waits eventually returns.
C29_GuardReleased ==
    /\ [][\A c \in Callers : OwnerEnds(c) => (~isSyncing' /\ syncPromise' = NoPass)]_vars
    /\ [][\A c \in Callers :
             call[c].status = "waiting" => call'[c].status \in {"waiting", "done"}]_vars
    /\ \A c \in Callers : (call[c].status = "waiting") ~> (call[c].status = "done")
====
